---------------------------- MODULE Spec2Model ----------------------------
(***************************************************************************)
(* A model of the graph store (graphfunc/graph_pg_store.py) and of the     *)
(* graph maintenance worker (core.py) of the hybrid retrieval engine.      *)
(*                                                                         *)
(* Every store operation of GraphPgStore opens its own connection, runs    *)
(* its statements and commits: one operation is one transaction.  A        *)
(* single-statement operation acts on one row at a time under that row's   *)
(* lock, so it is modelled as one atomic step; the operations whose        *)
(* concurrency is claimed (fetch_pending_jobs, upsert_entity) are          *)
(* modelled statement by statement, with the row locks they hold.          *)
(***************************************************************************)
EXTENDS Integers, Sequences, FiniteSets, TLC

VARIABLES
    entity,     \* table entity: entity_id -> row, or NoRow
    edge,       \* table entity_edge (edge_type co_occurs): <<src, dst>> -> row, or NoRow
    jobs,       \* table graph_job in created_at order: job_id = position
    worker,     \* each maintenance worker's position and local variables
    returned,   \* history: job_id -> the workers fetch_pending_jobs returned it to
    raisedIn,   \* history: job_id -> the store operation that raised while it was processed
    crashes,    \* history: how many times a worker process was stopped
    conn,       \* each connection running upsert_entity: its position and pending write
    calls,      \* history: natural key -> the upsert_entity calls that committed
    edgeHist,   \* history: edge -> the upsert_edge calls made on it and their weights
    replay,     \* the twice-applied job: its payload, the phase, the graph after one application
    detail,     \* table entity, the descriptive columns: entity_id -> aliases, description, confidence, embedding
    last,       \* history: the store operation of the last step and what it met
    evidence,   \* table entity_edge, column evidence_chunk_ids: edge -> the stored list, and
                \* (history) the chunk ids every upsert_edge call on the edge supplied
    rag,        \* the document store as committed: tables docs, doc_versions, chunks, audit_search
    tx,         \* the document-store call in progress: its position, arguments, open
                \* transaction and outcome
    link,       \* each request thread's store call and its connection: the context of the
                \* call, the session variables set on the connection, (history) its queries
    tenantRows, \* the tenants' rows of the tables the calls of link query: row -> times modified
    chat,       \* the candidate merge of a chat turn: both paths' hits and the merged list
    mention     \* table entity_chunk: the rows (entity_id, chunk_id, mention_count)

\* the state of the specifications that follow the graph and its queue
beyond == <<detail, last, evidence, rag, tx, link, tenantRows, mention, chat>>

vars == <<entity, edge, jobs, worker, returned, raisedIn, crashes, conn, calls, edgeHist, replay,
          beyond>>

\* the state of the graph, its queue and the histories kept on them
graphVars == <<jobs, worker, returned, raisedIn, crashes, conn, calls, edgeHist, replay>>

\* what the maintenance worker and the job queue never write
outsideQueue == <<crashes, conn, calls, edgeHist, replay, beyond>>

---------------------------------------------------------------------------
(* Bounds of the model *)

MaxJobs == 2            \* jobs ever enqueued (Spec, LiveSpec)
MaxGraphJobs == 1       \* jobs ever enqueued (SpecGraph)
FetchLimit == 1         \* the limit argument of fetch_pending_jobs
MaxCount == 3           \* occurrence_count / evidence_count are capped here by the guards
MaxMentionCount == 2    \* mention_count of one payload mention
MaxCrashes == 1         \* times a worker process is stopped and started again
MaxCalls == 3           \* upsert_entity calls per natural key
MaxUpserts == 3         \* upsert_edge calls per edge
MaxEvidence == 2        \* evidence_count of an edge before a replayed job (SpecReplay)

Workers == {"w1", "w2"}
Conns == {"a", "b", "c"}
EntityIds == {1, 2}
Keys == {"k1", "k2"}    \* natural keys (app_id, name, type, classification)
ChunkIds == {"c1", "c2"}
JobIds == 1..MaxJobs

NoRow == [absent |-> TRUE]
NoError == "NULL"

EdgeKeys == {p \in EntityIds \X EntityIds : p[1] # p[2]}

---------------------------------------------------------------------------
(* Helpers on sequences and sets *)

Range(s) == {s[i] : i \in DOMAIN s}

Min(a, b) == IF a <= b THEN a ELSE b

Max(a, b) == IF a >= b THEN a ELSE b

MinOf(S) == CHOOSE x \in S : \A y \in S : x <= y

RECURSIVE Ascending(_)
Ascending(S) == IF S = {} THEN <<>> ELSE <<MinOf(S)>> \o Ascending(S \ {MinOf(S)})

Take(s, n) == SubSeq(s, 1, Min(n, Len(s)))

\* list(dict.fromkeys(xs)): the first occurrence of every element, in order
RECURSIVE Uniq(_)
Uniq(s) ==
    IF s = <<>> THEN <<>>
    ELSE LET r == Uniq(SubSeq(s, 1, Len(s) - 1))
             x == s[Len(s)]
         IN  IF x \in Range(r) THEN r ELSE Append(r, x)

---------------------------------------------------------------------------
(* Entity rows: GraphPgStore's statements on table entity *)

\* SET occurrence_count = GREATEST(occurrence_count - dec_count, 0)
\*  WHERE entity_id = eid   (no row: nothing is updated)
DecrementNoFloor(tbl, eid, dec) ==
    IF tbl[eid] = NoRow THEN tbl
    ELSE [tbl EXCEPT ![eid].occurrence_count = @ - dec]

decrement_entity_occurrence(tbl, eid, dec) ==
    IF tbl[eid] = NoRow THEN tbl
    ELSE [tbl EXCEPT ![eid].occurrence_count = Max(@ - dec, 0)]

\* SET is_active = false WHERE entity_id = ANY(ids) AND occurrence_count <= 0
DeactivateAllListed(tbl, ids) ==
    [e \in EntityIds |->
        IF e \in ids /\ tbl[e] # NoRow
        THEN [tbl[e] EXCEPT !.is_active = FALSE]
        ELSE tbl[e]]

deactivate_entities_with_zero_occurrence(tbl, ids) ==
    [e \in EntityIds |->
        IF e \in ids /\ tbl[e] # NoRow /\ tbl[e].occurrence_count <= 0
        THEN [tbl[e] EXCEPT !.is_active = FALSE]
        ELSE tbl[e]]

\* SET evidence_count = GREATEST(evidence_count - dec_count, 0) on edge (src, dst, co_occurs)
DecrementEvidenceNoFloor(tbl, src, dst, dec) ==
    IF tbl[<<src, dst>>] = NoRow THEN tbl
    ELSE [tbl EXCEPT ![<<src, dst>>].evidence_count = @ - dec]

decrement_edge_evidence(tbl, src, dst, dec) ==
    IF tbl[<<src, dst>>] = NoRow THEN tbl
    ELSE [tbl EXCEPT ![<<src, dst>>].evidence_count = Max(@ - dec, 0)]

EntityRow(k, n, a) == [key |-> k, occurrence_count |-> n, is_active |-> a]

EdgeRow(wt, n) == [weight |-> wt, evidence_count |-> n]

\* INSERT INTO entity(..., occurrence_count, is_active) VALUES (..., 1, true)
\* ON CONFLICT (app_id, name, type, classification) DO UPDATE SET
\*   occurrence_count = entity.occurrence_count + 1, is_active = true
\* old is the row the key collides with, or NoRow
UpsertKeepsFlag(old, k) ==
    IF old = NoRow THEN EntityRow(k, 1, TRUE)
    ELSE [old EXCEPT !.occurrence_count = @ + 1]

UpsertEntityRow(old, k) ==
    IF old = NoRow THEN EntityRow(k, 1, TRUE)
    ELSE [old EXCEPT !.occurrence_count = @ + 1, !.is_active = TRUE]

\* Weights are held in thousandths: 0.5 is 500 and the cap 1.000 is 1000.
WeightOne == 1000

WeightHalf == 500

\* INSERT INTO entity_edge(..., weight, evidence_count) VALUES (..., %s, 1)
\* ON CONFLICT (app_id, src, dst, edge_type) DO UPDATE SET
\*   weight = LEAST(entity_edge.weight + EXCLUDED.weight, 1.000),
\*   evidence_count = entity_edge.evidence_count + 1
AccumulateUncapped(old, wt) ==
    IF old = NoRow THEN EdgeRow(wt, 1)
    ELSE [old EXCEPT !.weight = @ + wt, !.evidence_count = @ + 1]

UpsertEdgeRow(old, wt) ==
    IF old = NoRow THEN EdgeRow(wt, 1)
    ELSE [old EXCEPT !.weight = Min(@ + wt, WeightOne), !.evidence_count = @ + 1]

\* update_edge(weight=wt): UPDATE entity_edge SET weight = %s WHERE (src, dst, edge_type)
UpdateEdgeRow(old, wt) ==
    IF old = NoRow THEN old ELSE [old EXCEPT !.weight = wt]

---------------------------------------------------------------------------
(* The payload of a doc_deleted job and what process_graph_jobs_once reads *)
(* from it.  A mention is one row of fetch_chunk_entities: (chunk_id,      *)
(* entity_id, mention_count), both ids non-empty.                          *)

Mention == [entity_id : EntityIds, chunk_id : ChunkIds, mention_count : 0..MaxMentionCount]

\* cnt = int(m.get("mention_count") or 1): a missing or zero count reads as 1
MentionCnt(m) == IF m.mention_count = 0 THEN 1 ELSE m.mention_count

\* dec_map[eid] = dec_map.get(eid, 0) + cnt, as the list of its items in insertion order
RECURSIVE DecMap(_)
DecMap(ms) ==
    IF ms = <<>> THEN <<>>
    ELSE LET acc == DecMap(SubSeq(ms, 1, Len(ms) - 1))
             m == ms[Len(ms)]
         IN  IF \E i \in DOMAIN acc : acc[i][1] = m.entity_id
             THEN [i \in DOMAIN acc |->
                      IF acc[i][1] = m.entity_id
                      THEN <<acc[i][1], acc[i][2] + MentionCnt(m)>>
                      ELSE acc[i]]
             ELSE Append(acc, <<m.entity_id, MentionCnt(m)>>)

\* list(dec_map.keys())
DecKeys(ms) == {m[1] : m \in Range(DecMap(ms))}

\* the keys of chunk_entity_map in insertion order
ChunkOrder(ms) == Uniq([i \in DOMAIN ms |-> ms[i].chunk_id])

\* chunk_entity_map[cid]: the entity ids mentioned in cid, in payload order
RECURSIVE EidsOf(_, _)
EidsOf(ms, cid) ==
    IF ms = <<>> THEN <<>>
    ELSE IF Head(ms).chunk_id = cid
         THEN <<Head(ms).entity_id>> \o EidsOf(Tail(ms), cid)
         ELSE EidsOf(Tail(ms), cid)

\* for i in range(len(uniq)): for j in range(i + 1, len(uniq)):
\*     decrement (uniq[i], uniq[j]) then (uniq[j], uniq[i])
RECURSIVE PairCalls(_, _, _)
PairCalls(uniq, i, j) ==
    IF i > Len(uniq) THEN <<>>
    ELSE IF j > Len(uniq) THEN PairCalls(uniq, i + 1, i + 2)
    ELSE <<<<uniq[i], uniq[j]>>, <<uniq[j], uniq[i]>>>> \o PairCalls(uniq, i, j + 1)

\* the decrement_edge_evidence calls of one job, in call order
RECURSIVE EdgeCallsOf(_, _)
EdgeCallsOf(ms, cids) ==
    IF cids = <<>> THEN <<>>
    ELSE PairCalls(Uniq(EidsOf(ms, Head(cids))), 1, 2) \o EdgeCallsOf(ms, Tail(cids))

EdgeCalls(ms) == EdgeCallsOf(ms, ChunkOrder(ms))

---------------------------------------------------------------------------
(* The job queue: table graph_job *)

\* FOR UPDATE SKIP LOCKED: a row locked by another open transaction is skipped.
\* fetch_pending_jobs holds the locks of the rows it selected until it commits.
NoRowLock(w, j) == TRUE

RowLockFree(w, j) ==
    ~ \E v \in Workers \ {w} :
        /\ worker[v].pc \in {"update", "commit"}
        /\ j \in Range(worker[v].rows)

\* WHERE app_id = %s AND status = 'pending'
AnyUnfinished(j) == jobs[j].status \in {"pending", "running", "failed"}

StatusIsPending(j) == jobs[j].status = "pending"

\* SELECT job_id ... ORDER BY created_at ASC LIMIT limit FOR UPDATE SKIP LOCKED
SelectPending(w, limit) ==
    Take(Ascending({j \in DOMAIN jobs : StatusIsPending(j) /\ RowLockFree(w, j)}), limit)

\* INSERT INTO graph_job(app_id, job_type, payload, status) VALUES (.., 'pending')
enqueue_job(payload) ==
    jobs' = Append(jobs, [status |-> "pending", payload |-> payload, error_message |-> NoError])

\* UPDATE graph_job SET status = %s, error_message = %s WHERE job_id = %s
mark_job_done(tbl, j, success, error) ==
    [tbl EXCEPT ![j].status = IF success THEN "done" ELSE "failed",
                ![j].error_message = error]

---------------------------------------------------------------------------
(* The maintenance worker: graph_job_worker calls process_graph_jobs_once, *)
(* sleeps, and calls it again.  pc is the worker's position:               *)
(*   sleep   between two calls                                             *)
(*   update  in fetch_pending_jobs, rows selected and locked               *)
(*   commit  in fetch_pending_jobs, rows updated, not committed            *)
(*   body    in the try block of job rows[i]                               *)
(*   mark    before mark_job_done(success=True)                            *)
(*   except  in the except block, before mark_job_done(success=False)      *)

Asleep ==
    [pc |-> "sleep", rows |-> <<>>, i |-> 0, ents |-> <<>>, pairs |-> <<>>,
     e |-> NoError,
     snap |-> [x \in EntityIds |-> FALSE], touched |-> {}, floored |-> FALSE]

Job(w) == worker[w].rows[worker[w].i]

Mentions(w) == jobs[Job(w)].payload

ActiveFlags == [x \in EntityIds |-> entity[x] # NoRow /\ entity[x].is_active]

\* the head of "for job in jobs": worker record r enters the try block of its next
\* job with that job's dec_map and chunk_entity_map, or the call returns len(jobs)
NextJob(r) ==
    IF r.i < Len(r.rows)
    THEN LET ms == jobs[r.rows[r.i + 1]].payload
         IN  [r EXCEPT !.pc = "body", !.i = @ + 1,
                       !.ents = DecMap(ms), !.pairs = EdgeCalls(ms), !.e = NoError,
                       !.snap = ActiveFlags, !.touched = {}, !.floored = FALSE]
    ELSE Asleep

\* fetch_pending_jobs, first statement: SELECT ... FOR UPDATE SKIP LOCKED
FetchSelect(w) ==
    /\ worker[w].pc = "sleep"
    /\ worker' = [worker EXCEPT ![w] =
                    [Asleep EXCEPT !.pc = "update", !.rows = SelectPending(w, FetchLimit)]]
    /\ UNCHANGED <<outsideQueue, entity, edge, jobs, returned, raisedIn>>

\* fetch_pending_jobs, second statement: UPDATE ... SET status = 'running'
\* WHERE job_id = ANY(rows); the new status is visible to others at commit
FetchUpdate(w) ==
    /\ worker[w].pc = "update"
    /\ worker' = [worker EXCEPT ![w].pc = "commit"]
    /\ UNCHANGED <<outsideQueue, entity, edge, jobs, returned, raisedIn>>

\* fetch_pending_jobs: conn.commit() and return; "if not jobs: return 0"
FetchCommit(w) ==
    /\ worker[w].pc = "commit"
    /\ jobs' = [j \in DOMAIN jobs |->
                  IF j \in Range(worker[w].rows)
                  THEN [jobs[j] EXCEPT !.status = "running"]
                  ELSE jobs[j]]
    /\ returned' = [j \in JobIds |->
                      IF j \in Range(worker[w].rows) THEN returned[j] \cup {w} ELSE returned[j]]
    /\ worker' = [worker EXCEPT ![w] = NextJob(@)]
    /\ UNCHANGED <<outsideQueue, entity, edge, raisedIn>>

\* fetch_pending_jobs raises before its commit: the transaction is rolled back,
\* the exception leaves process_graph_jobs_once and graph_job_worker logs it
FetchFails(w) ==
    /\ worker[w].pc \in {"update", "commit"}
    /\ worker' = [worker EXCEPT ![w] = Asleep]
    /\ UNCHANGED <<outsideQueue, entity, edge, jobs, returned, raisedIn>>

\* a store operation of the try block raises: control goes to the except block
Raise(w, op) ==
    /\ worker' = [worker EXCEPT ![w].pc = "except", ![w].e = op]
    /\ raisedIn' = [raisedIn EXCEPT ![Job(w)] = op]

\* for eid, dec in dec_map.items(): decrement_entity_occurrence(eid, dec)
DecrementEntity(w) ==
    /\ worker[w].pc = "body"
    /\ worker[w].ents # <<>>
    /\ LET eid == Head(worker[w].ents)[1]
           dec == Head(worker[w].ents)[2]
       IN  /\ entity' = decrement_entity_occurrence(entity, eid, dec)
           /\ worker' = [worker EXCEPT
                  ![w].ents = Tail(@),
                  ![w].floored = @ \/ (entity[eid] # NoRow /\ dec > entity[eid].occurrence_count)]
    /\ UNCHANGED <<outsideQueue, edge, jobs, returned, raisedIn>>

DecrementEntityFails(w) ==
    /\ worker[w].pc = "body"
    /\ worker[w].ents # <<>>
    /\ Raise(w, "decrement_entity_occurrence")
    /\ UNCHANGED <<outsideQueue, entity, edge, jobs, returned>>

\* decrement_edge_evidence(a, b, "co_occurs", 1) and (b, a, ...), one call a step
DecrementEdge(w) ==
    /\ worker[w].pc = "body"
    /\ worker[w].ents = <<>>
    /\ worker[w].pairs # <<>>
    /\ edge' = decrement_edge_evidence(edge, Head(worker[w].pairs)[1], Head(worker[w].pairs)[2], 1)
    /\ worker' = [worker EXCEPT ![w].pairs = Tail(@)]
    /\ UNCHANGED <<outsideQueue, entity, jobs, returned, raisedIn>>

DecrementEdgeFails(w) ==
    /\ worker[w].pc = "body"
    /\ worker[w].ents = <<>>
    /\ worker[w].pairs # <<>>
    /\ Raise(w, "decrement_edge_evidence")
    /\ UNCHANGED <<outsideQueue, entity, edge, jobs, returned>>

\* deactivate_entities_with_zero_occurrence(list(dec_map.keys()))
Deactivate(w) ==
    /\ worker[w].pc = "body"
    /\ worker[w].ents = <<>>
    /\ worker[w].pairs = <<>>
    /\ entity' = deactivate_entities_with_zero_occurrence(entity, DecKeys(Mentions(w)))
    /\ worker' = [worker EXCEPT ![w].pc = "mark"]
    /\ UNCHANGED <<outsideQueue, edge, jobs, returned, raisedIn>>

\* "if not entity_ids: return" comes before the connection: an empty list cannot raise
DeactivateFails(w) ==
    /\ worker[w].pc = "body"
    /\ worker[w].ents = <<>>
    /\ worker[w].pairs = <<>>
    /\ DecKeys(Mentions(w)) # {}
    /\ Raise(w, "deactivate_entities_with_zero_occurrence")
    /\ UNCHANGED <<outsideQueue, entity, edge, jobs, returned>>

\* mark_job_done(job_id, success=True), the last statement of the try block
MarkDone(w) ==
    /\ worker[w].pc = "mark"
    /\ jobs' = mark_job_done(jobs, Job(w), TRUE, NoError)
    /\ worker' = [worker EXCEPT ![w] = NextJob(@)]
    /\ UNCHANGED <<outsideQueue, entity, edge, returned, raisedIn>>

MarkDoneFails(w) ==
    /\ worker[w].pc = "mark"
    /\ Raise(w, "mark_job_done")
    /\ UNCHANGED <<outsideQueue, entity, edge, jobs, returned>>

\* except Exception as e: mark_job_done(job_id, success=False, error=f"...{e}")
MarkFailed(w) ==
    /\ worker[w].pc = "except"
    /\ jobs' = mark_job_done(jobs, Job(w), FALSE, worker[w].e)
    /\ worker' = [worker EXCEPT ![w] = NextJob(@)]
    /\ UNCHANGED <<outsideQueue, entity, edge, returned, raisedIn>>

\* mark_job_done raises inside the except block: nothing catches it in
\* process_graph_jobs_once, the call ends and the rest of the batch is not visited
MarkFailedFails(w) ==
    /\ worker[w].pc = "except"
    /\ worker' = [worker EXCEPT ![w] = Asleep]
    /\ UNCHANGED <<outsideQueue, entity, edge, jobs, returned, raisedIn>>

WorkerOk(w) ==
    \/ FetchSelect(w)
    \/ FetchUpdate(w)
    \/ FetchCommit(w)
    \/ DecrementEntity(w)
    \/ DecrementEdge(w)
    \/ Deactivate(w)
    \/ MarkDone(w)

WorkerFails(w) ==
    \/ FetchFails(w)
    \/ DecrementEntityFails(w)
    \/ DecrementEdgeFails(w)
    \/ DeactivateFails(w)
    \/ MarkDoneFails(w)
    \/ MarkFailed(w)
    \/ MarkFailedFails(w)

---------------------------------------------------------------------------
(* Document deletion enqueues a doc_deleted job with the snapshot of the   *)
(* document's mentions (delete_doc, _collect_graph_delete_payload).        *)

NoMentions == <<>>

TwoEntities ==
    <<[entity_id |-> 1, chunk_id |-> "c1", mention_count |-> 2],
      [entity_id |-> 2, chunk_id |-> "c1", mention_count |-> 1]>>

QueuePayloads == {NoMentions, TwoEntities}

Enqueue(payloads, cap) ==
    /\ Len(jobs) < cap
    /\ \E p \in payloads : enqueue_job(p)
    /\ UNCHANGED <<outsideQueue, entity, edge, worker, returned, raisedIn>>

---------------------------------------------------------------------------
(* Spec: the job queue with two workers over a graph built by an earlier   *)
(* ingestion.                                                              *)

BuiltGraph ==
    /\ entity = (1 :> EntityRow("k1", 2, TRUE) @@ 2 :> EntityRow("k2", 1, TRUE))
    /\ edge = [p \in EdgeKeys |-> EdgeRow(WeightHalf, 1)]

NoJobs ==
    /\ jobs = <<>>
    /\ worker = [w \in Workers |-> Asleep]
    /\ returned = [j \in JobIds |-> {}]
    /\ raisedIn = [j \in JobIds |-> NoError]
    /\ crashes = 0

Idle == [pc |-> "idle", key |-> "k1", id |-> 1, row |-> NoRow]

NoCalls ==
    /\ conn = [c \in Conns |-> Idle]
    /\ calls = [k \in Keys |-> 0]

NoEdgeCalls == edgeHist = [p \in EdgeKeys |-> [n |-> 0, half |-> TRUE]]

NoReplay == replay = [phase |-> 0, payload |-> <<>>, once |-> <<>>]

NoOp == [op |-> "none"]

NoCall == [op |-> "none", pc |-> "idle"]

EmptyStore == [docs |-> {}, versions |-> {}, chunks |-> <<>>, audit |-> <<>>]

\* the request threads of the process
Links == {"x", "y"}

Tenants == {"A", "B"}

\* the tables the calls of link query; one row of each tenant in each
Tables == {"chunks", "doc_versions", "entity_edge", "graph_job"}

Rows == Tables \X Tenants

NoLink == [op |-> "none", pc |-> "idle"]

NoChat == [pc |-> "idle"]

NoRag ==
    /\ rag = EmptyStore
    /\ tx = NoCall
    /\ link = [l \in Links |-> NoLink]
    /\ tenantRows = [r \in Rows |-> 0]
    /\ mention = {}
    /\ chat = NoChat

NoEvidence == evidence = [p \in EdgeKeys |-> [ids |-> <<>>, supplied |-> {}]]

\* nothing beyond the graph and its queue is in use
NoBeyond ==
    /\ detail = [x \in EntityIds |-> NoRow]
    /\ last = NoOp
    /\ NoEvidence
    /\ NoRag

Init ==
    /\ BuiltGraph
    /\ NoJobs
    /\ NoCalls
    /\ NoEdgeCalls
    /\ NoReplay
    /\ NoBeyond

Next ==
    \/ Enqueue(QueuePayloads, MaxJobs)
    \/ \E w \in Workers : WorkerOk(w)
    \/ \E w \in Workers : WorkerFails(w)

Spec == Init /\ [][Next]_vars

Processing(r) == r.pc \in {"body", "mark", "except"}

\* C1: when two workers run fetch_pending_jobs concurrently, under every
\* interleaving of their select, update and commit steps no job id is returned
\* to both, and no job is being processed by two workers at once.
C1_NoJobReturnedTwice ==
    /\ \A j \in JobIds : Cardinality(returned[j]) <= 1
    /\ \A w \in Workers : \A v \in Workers \ {w} :
          Processing(worker[w]) /\ Processing(worker[v]) => Job(w) # Job(v)

\* both workers are inside fetch_pending_jobs at once, each holding rows it selected
C1_Witness ==
    /\ worker["w1"].pc = "commit" /\ worker["w1"].rows # <<>>
    /\ worker["w2"].pc = "commit" /\ worker["w2"].rows # <<>>

\* C7: a job's status only moves pending -> running (by the commit of
\* fetch_pending_jobs) and running -> done or failed (by the worker processing
\* it); a done or failed job is never selected by fetch_pending_jobs again and
\* no worker processes it again.
C7_StatusOnlyMovesForward ==
    [][\A j \in DOMAIN jobs :
        /\ jobs'[j].status # jobs[j].status =>
              \/ /\ jobs[j].status = "pending"
                 /\ jobs'[j].status = "running"
                 /\ \E w \in Workers : worker[w].pc = "commit" /\ j \in Range(worker[w].rows)
              \/ /\ jobs[j].status = "running"
                 /\ jobs'[j].status \in {"done", "failed"}
                 /\ \E w \in Workers : worker[w].pc \in {"mark", "except"} /\ Job(w) = j
        /\ jobs[j].status \in {"done", "failed"} =>
              \A w \in Workers :
                 /\ j \in Range(worker'[w].rows) => j \in Range(worker[w].rows)
                 /\ Processing(worker'[w]) => worker'[w].rows[worker'[w].i] # j]_vars

\* fetch_pending_jobs has selected its rows while a failed job is in the table
C7_Witness ==
    /\ \E j \in DOMAIN jobs : jobs[j].status = "failed"
    /\ \E j \in DOMAIN jobs : jobs[j].status = "done"
    /\ \E w \in Workers : worker[w].pc = "update"

\* C8: every job claimed by a call of process_graph_jobs_once is done when its
\* processing raised nothing and failed, with the captured error, when a step
\* raised; none is still running when the call has ended, normally or by an
\* exception.
C8_NoClaimedJobLeftRunning ==
    \A w \in Workers : worker[w].pc = "sleep" =>
        \A j \in DOMAIN jobs : w \in returned[j] =>
            /\ jobs[j].status \in {"done", "failed"}
            /\ jobs[j].status = "done" => raisedIn[j] = NoError
            /\ jobs[j].status = "failed" =>
                  raisedIn[j] # NoError /\ jobs[j].error_message = raisedIn[j]

---------------------------------------------------------------------------
(* LiveSpec: the workers keep polling (graph_job_worker's "while True"),   *)
(* no store operation fails, and a worker process may stop and be started  *)
(* again (startup creates the worker task).                                *)

\* the process stops: an open transaction is rolled back, the locals are lost;
\* started again, the worker polls from the beginning
Crash(w) ==
    /\ worker[w].pc # "sleep"
    /\ crashes < MaxCrashes
    /\ crashes' = crashes + 1
    /\ worker' = [worker EXCEPT ![w] = Asleep]
    /\ UNCHANGED <<entity, edge, jobs, returned, raisedIn, conn, calls, edgeHist, replay, beyond>>

NextLive ==
    \/ Enqueue(QueuePayloads, MaxJobs)
    \/ \E w \in Workers : WorkerOk(w)
    \/ \E w \in Workers : Crash(w)

LiveSpec == Init /\ [][NextLive]_vars /\ \A w \in Workers : WF_vars(WorkerOk(w))

\* C9: every enqueued job eventually reaches done or failed while the workers
\* keep polling, also when the worker that claimed it stops before marking it.
C9_EveryJobFinishes ==
    \A j \in JobIds :
        (j \in DOMAIN jobs) ~> (j \in DOMAIN jobs /\ jobs[j].status \in {"done", "failed"})

---------------------------------------------------------------------------
(* SpecGraph: one maintenance worker, while ingestions upsert entities and *)
(* deletions enqueue jobs.                                                 *)

RowOfKey(tbl, k) == {x \in EntityIds : tbl[x] # NoRow /\ tbl[x].key = k}

\* upsert_entity as one step (its statement and its commit): the row of key k
\* is merged, or a row with a new entity_id is inserted
UpsertEntity(k) ==
    /\ \E x \in EntityIds :
          /\ IF RowOfKey(entity, k) # {}
             THEN x \in RowOfKey(entity, k) /\ entity[x].occurrence_count < MaxCount
             ELSE entity[x] = NoRow /\ \A y \in EntityIds : entity[y] = NoRow => x <= y
          /\ entity' = [entity EXCEPT ![x] = UpsertEntityRow(@, k)]
          /\ worker' = [w \in Workers |->
                          IF Processing(worker[w])
                          THEN [worker[w] EXCEPT !.touched = @ \cup {x}]
                          ELSE worker[w]]
    /\ UNCHANGED <<outsideQueue, edge, jobs, returned, raisedIn>>

Overcount == <<[entity_id |-> 2, chunk_id |-> "c2", mention_count |-> 2]>>

GraphPayloads == {TwoEntities, Overcount}

EmptyGraph ==
    /\ entity = [x \in EntityIds |-> NoRow]
    /\ edge = [p \in EdgeKeys |-> NoRow]

InitGraph ==
    /\ EmptyGraph \/ BuiltGraph
    /\ NoJobs
    /\ NoCalls
    /\ NoEdgeCalls
    /\ NoReplay
    /\ NoBeyond

NextGraph ==
    \/ \E k \in Keys : UpsertEntity(k)
    \/ Enqueue(GraphPayloads, MaxGraphJobs)
    \/ WorkerOk("w1")
    \/ WorkerFails("w1")

SpecGraph == InitGraph /\ [][NextGraph]_vars

\* C3: in every reachable state, after any interleaving of upsert_entity, the
\* worker's decrement_entity_occurrence calls (with any amount, also one larger
\* than the current count) and its deactivations, every occurrence_count is >= 0.
C3_CountNeverNegative ==
    \A x \in EntityIds : entity[x] # NoRow => entity[x].occurrence_count >= 0

\* a decrement larger than the entity's count has been applied
C3_Witness ==
    /\ worker["w1"].floored
    /\ \E x \in EntityIds : entity[x] # NoRow /\ entity[x].occurrence_count = 0

\* C4: when the worker has applied a job (its decrements and then the
\* deactivation; only mark_job_done(success=True) remains), the entities it
\* deactivated are exactly the payload entities whose count is 0: each of them is
\* inactive, and every other entity (count still > 0, or absent from the payload)
\* has the active flag it had when the job started, or is active when an
\* ingestion upserted it meanwhile.
C4_DeactivatesExactlyZeroCount ==
    LET r == worker["w1"] IN
    r.pc = "mark" =>
        \A x \in EntityIds : entity[x] # NoRow =>
            IF x \in DecKeys(Mentions("w1")) /\ entity[x].occurrence_count = 0
            THEN ~ entity[x].is_active
            ELSE entity[x].is_active = (IF x \in r.touched THEN TRUE ELSE r.snap[x])

\* a job has deactivated one of its entities and left the other, whose count is
\* still positive, active
C4_Witness ==
    LET r == worker["w1"] IN
    /\ r.pc = "mark"
    /\ r.touched = {}
    /\ DecKeys(Mentions("w1")) = {1, 2}
    /\ \E x \in EntityIds : \E y \in EntityIds :
          /\ entity[x] # NoRow /\ entity[x].occurrence_count = 0
          /\ r.snap[x] /\ ~ entity[x].is_active
          /\ entity[y] # NoRow /\ entity[y].occurrence_count > 0 /\ entity[y].is_active

---------------------------------------------------------------------------
(* SpecUpsert: concurrent upsert_entity calls, statement by statement.     *)
(* Each call runs on its own connection: the INSERT ... ON CONFLICT        *)
(* statement, then conn.commit().  The statement locks the row of its      *)
(* natural key (the row it inserts, or the row it collides with) until     *)
(* the transaction ends; a statement on a key that another open            *)
(* transaction has written waits for that transaction.                     *)

NoKeyLock(c, k) == TRUE

KeyLockFree(c, k) ==
    ~ \E d \in Conns \ {c} : conn[d].pc = "commit" /\ conn[d].key = k

\* entity ids no committed row and no pending insert uses (ids are generated)
FreshIds == {x \in EntityIds : entity[x] = NoRow /\ \A d \in Conns : conn[d].pc = "commit" => conn[d].id # x}

InFlight(k) == Cardinality({d \in Conns : conn[d].pc # "idle" /\ conn[d].key = k})

\* upsert_entity is called: the connection is opened and its session variables set
UpsertBegin(c, k) ==
    /\ conn[c].pc = "idle"
    /\ calls[k] + InFlight(k) < MaxCalls
    /\ conn' = [conn EXCEPT ![c] = [Idle EXCEPT !.pc = "insert", !.key = k]]
    /\ UNCHANGED <<entity, edge, jobs, worker, returned, raisedIn, crashes, calls, edgeHist, replay, beyond>>

\* cur.execute(INSERT ... ON CONFLICT ... DO UPDATE ...): the row is written in
\* the open transaction
UpsertExecute(c) ==
    /\ conn[c].pc = "insert"
    /\ KeyLockFree(c, conn[c].key)
    /\ \E x \in EntityIds :
          /\ IF RowOfKey(entity, conn[c].key) # {}
             THEN x \in RowOfKey(entity, conn[c].key)
             ELSE x \in FreshIds /\ \A y \in FreshIds : x <= y
          /\ conn' = [conn EXCEPT ![c].pc = "commit", ![c].id = x,
                                  ![c].row = UpsertEntityRow(entity[x], conn[c].key)]
    /\ UNCHANGED <<entity, edge, jobs, worker, returned, raisedIn, crashes, calls, edgeHist, replay, beyond>>

\* conn.commit(): the written row becomes the table's row, the lock is released
UpsertCommit(c) ==
    /\ conn[c].pc = "commit"
    /\ entity' = [entity EXCEPT ![conn[c].id] = conn[c].row]
    /\ calls' = [calls EXCEPT ![conn[c].key] = @ + 1]
    /\ conn' = [conn EXCEPT ![c] = Idle]
    /\ UNCHANGED <<edge, jobs, worker, returned, raisedIn, crashes, edgeHist, replay, beyond>>

\* the call raises before its commit: "with self._connect()" rolls back
UpsertFails(c) ==
    /\ conn[c].pc \in {"insert", "commit"}
    /\ conn' = [conn EXCEPT ![c] = Idle]
    /\ UNCHANGED <<entity, edge, jobs, worker, returned, raisedIn, crashes, calls, edgeHist, replay, beyond>>

InitUpsert ==
    /\ EmptyGraph
    /\ NoJobs
    /\ NoCalls
    /\ NoEdgeCalls
    /\ NoReplay
    /\ NoBeyond

NextUpsert ==
    \/ \E c \in Conns : \E k \in Keys : UpsertBegin(c, k)
    \/ \E c \in Conns : UpsertExecute(c)
    \/ \E c \in Conns : UpsertCommit(c)
    \/ \E c \in Conns : UpsertFails(c)

SpecUpsert == InitUpsert /\ [][NextUpsert]_vars

\* C2: for every natural key, the N upsert_entity calls that have committed,
\* run one after another or concurrently in any interleaving, leave exactly one
\* entity row for the key, with occurrence_count = N (no row for N = 0).
C2_OneRowCountingEveryCall ==
    \A k \in Keys :
        /\ Cardinality(RowOfKey(entity, k)) = (IF calls[k] = 0 THEN 0 ELSE 1)
        /\ \A x \in RowOfKey(entity, k) : entity[x].occurrence_count = calls[k]

\* after a call on a key has committed, two more calls on it are open at once:
\* one has written the row and holds its lock, the other waits to execute
C2_Witness ==
    \E k \in Keys :
        /\ calls[k] >= 1
        /\ \E c \in Conns : conn[c].pc = "insert" /\ conn[c].key = k
        /\ \E c \in Conns : conn[c].pc = "commit" /\ conn[c].key = k

---------------------------------------------------------------------------
(* SpecEdge: edge writes: upsert_edge (graph build writes weight 0.5, the   *)
(* graph admin's create_edge any number) and update_edge (the graph        *)
(* admin's weight field).                                                  *)

UpsertWeights == {250, WeightHalf, 1500}

UpdateWeights == {-500, 1500}

\* upsert_edge(src, dst, "co_occurs", weight=wt)
UpsertEdge(p, wt) ==
    /\ edgeHist[p].n < MaxUpserts
    /\ edge' = [edge EXCEPT ![p] = UpsertEdgeRow(@, wt)]
    /\ edgeHist' = [edgeHist EXCEPT ![p].n = @ + 1,
                                    ![p].half = @ /\ wt = WeightHalf]
    /\ UNCHANGED <<entity, jobs, worker, returned, raisedIn, crashes, conn, calls, replay, beyond>>

\* update_edge(src, dst, "co_occurs", weight=wt)
UpdateEdge(p, wt) ==
    /\ edge[p] # NoRow
    /\ edge' = [edge EXCEPT ![p] = UpdateEdgeRow(@, wt)]
    /\ edgeHist' = [edgeHist EXCEPT ![p].half = FALSE]
    /\ UNCHANGED <<entity, jobs, worker, returned, raisedIn, crashes, conn, calls, replay, beyond>>

InitEdge ==
    /\ entity = (1 :> EntityRow("k1", 2, TRUE) @@ 2 :> EntityRow("k2", 1, TRUE))
    /\ edge = [p \in EdgeKeys |-> NoRow]
    /\ NoJobs
    /\ NoCalls
    /\ NoEdgeCalls
    /\ NoReplay
    /\ NoBeyond

NextEdge ==
    \/ \E p \in EdgeKeys : \E wt \in UpsertWeights : UpsertEdge(p, wt)
    \/ \E p \in EdgeKeys : \E wt \in UpdateWeights : UpdateEdge(p, wt)

SpecEdge == InitEdge /\ [][NextEdge]_vars

\* C5: after N >= 1 calls of upsert_edge on an edge, each with weight 0.5 (and no
\* other write of the edge), the stored weight is min(0.5 * N, 1.0).
C5_HalfWeightsSaturate ==
    \A p \in EdgeKeys :
        edgeHist[p].half /\ edgeHist[p].n >= 1 =>
            /\ edge[p] # NoRow
            /\ edge[p].weight = Min(WeightHalf * edgeHist[p].n, WeightOne)

\* three upserts of weight 0.5 have been made on an edge
C5_Witness ==
    \E p \in EdgeKeys :
        edgeHist[p].half /\ edgeHist[p].n >= 3 /\ edge[p].weight = WeightOne

\* C6: after any sequence of edge writes (upsert_edge, the creating call
\* included, with any weight, and update_edge) every stored weight is in [0, 1].
C6_WeightInUnitInterval ==
    \A p \in EdgeKeys : edge[p] # NoRow => 0 <= edge[p].weight /\ edge[p].weight <= WeightOne

---------------------------------------------------------------------------
(* SpecReplay: what one job does to the graph, as a function of the graph  *)
(* and the payload, applied to the same payload twice.                     *)

RECURSIVE DecrementEntities(_, _)
DecrementEntities(tbl, ents) ==
    IF ents = <<>> THEN tbl
    ELSE DecrementEntities(decrement_entity_occurrence(tbl, Head(ents)[1], Head(ents)[2]),
                           Tail(ents))

RECURSIVE DecrementEdges(_, _)
DecrementEdges(tbl, pairs) ==
    IF pairs = <<>> THEN tbl
    ELSE DecrementEdges(decrement_edge_evidence(tbl, Head(pairs)[1], Head(pairs)[2], 1),
                        Tail(pairs))

\* the try block of process_graph_jobs_once on payload mentions ms, no call raising
ApplyJob(g, ms) ==
    [entity |-> deactivate_entities_with_zero_occurrence(
                    DecrementEntities(g.entity, DecMap(ms)), DecKeys(ms)),
     edge |-> DecrementEdges(g.edge, EdgeCalls(ms))]

\* payloads of at most two mentions
Payloads == {<<>>} \cup {<<m>> : m \in Mention} \cup {<<m, n>> : m \in Mention, n \in Mention}

ReplayApply ==
    /\ replay.phase < 2
    /\ LET g == ApplyJob([entity |-> entity, edge |-> edge], replay.payload)
       IN  /\ entity' = g.entity
           /\ edge' = g.edge
           /\ replay' = [replay EXCEPT !.phase = @ + 1,
                                       !.once = IF replay.phase = 0 THEN g ELSE @]
    /\ UNCHANGED <<jobs, worker, returned, raisedIn, crashes, conn, calls, edgeHist, beyond>>

InitReplay ==
    /\ \E n \in [EntityIds -> 0..MaxCount], a \in [EntityIds -> BOOLEAN] :
          entity = [x \in EntityIds |->
                       EntityRow(IF x = 1 THEN "k1" ELSE "k2", n[x], a[x])]
    /\ edge \in [EdgeKeys -> {EdgeRow(WeightHalf, n) : n \in 0..MaxEvidence}]
    /\ \E ms \in Payloads : replay = [phase |-> 0, payload |-> ms, once |-> <<>>]
    /\ NoJobs
    /\ NoCalls
    /\ NoEdgeCalls
    /\ NoBeyond

SpecReplay == InitReplay /\ [][ReplayApply]_vars

\* the total decrement of entity x and the decrement calls on edge p in one job
DecOf(ms, x) ==
    IF x \in DecKeys(ms) THEN (CHOOSE m \in Range(DecMap(ms)) : m[1] = x)[2] ELSE 0

CallsOn(ms, p) == Cardinality({i \in DOMAIN EdgeCalls(ms) : EdgeCalls(ms)[i] = p})

---------------------------------------------------------------------------
(* SpecEntity: the whole entity row under upsert_entity, with the          *)
(* statements that lower its count and deactivate it.  Each operation is   *)
(* one statement in its own transaction, taken as one step.                *)

Null == "NULL"

AliasLists == {<<>>, <<"a1">>}
NoAliases == <<Null>>                   \* the argument aliases = None
AliasArgs == AliasLists \cup {NoAliases}
Descriptions == {"d1"}
Confidences == {"medium", "high"}
Embeddings == {"e1", "e2"}

\* the descriptive columns of an entity row
Detail(al, de, co, em) ==
    [aliases |-> al, description |-> de, confidence |-> co, embedding |-> em]

\* the descriptive columns given to a row built by ingestion
PlainDetail == Detail(<<>>, Null, "medium", "e1")

\* COALESCE(a, b)
Coalesce(a, b) == IF a # Null THEN a ELSE b

\* aliases = aliases or []
AliasesArg(al) == IF al = NoAliases THEN <<>> ELSE al

\* VALUES (.., aliases, description, confidence, .., embedding, ..)
\* ON CONFLICT .. DO UPDATE SET aliases = EXCLUDED.aliases,
\*   description = COALESCE(EXCLUDED.description, entity.description),
\*   confidence = EXCLUDED.confidence,
\*   embedding = COALESCE(EXCLUDED.embedding, entity.embedding)
\* old is the descriptive part of the row the key collides with, or NoRow
UpsertOverwritesEmbedding(old, al, de, co, em) ==
    Detail(AliasesArg(al), IF old = NoRow THEN de ELSE Coalesce(de, old.description), co, em)

UpsertEntityDetail(old, al, de, co, em) ==
    IF old = NoRow
    THEN Detail(AliasesArg(al), de, co, em)
    ELSE Detail(AliasesArg(al), Coalesce(de, old.description), co,
                Coalesce(em, old.embedding))

\* the row upsert_entity writes for key k: the row the key collides with, or the
\* next generated entity_id
UpsertTarget(k) ==
    IF RowOfKey(entity, k) # {}
    THEN RowOfKey(entity, k)
    ELSE {x \in EntityIds : entity[x] = NoRow /\ \A y \in EntityIds : entity[y] = NoRow => x <= y}

\* upsert_entity(name, type, classification = k, aliases, description, confidence, embedding)
UpsertEntityFull(k, al, de, co, em) ==
    /\ \E x \in UpsertTarget(k) :
          /\ entity[x] # NoRow => entity[x].occurrence_count < MaxCount
          /\ entity' = [entity EXCEPT ![x] = UpsertEntityRow(@, k)]
          /\ detail' = [detail EXCEPT ![x] = UpsertEntityDetail(@, al, de, co, em)]
          /\ last' = [op |-> "upsert_entity", id |-> x,
                      collided |-> entity[x] # NoRow,
                      was_active |-> entity[x] # NoRow /\ entity[x].is_active,
                      aliases |-> al, confidence |-> co, embedding |-> em]
    /\ UNCHANGED <<evidence, rag, tx, link, tenantRows, mention, chat, edge, graphVars>>

\* decrement_entity_occurrence(entity_id = x, dec_count = dec)
DecrementOccurrence(x, dec) ==
    /\ entity[x] # NoRow
    /\ entity' = decrement_entity_occurrence(entity, x, dec)
    /\ last' = [op |-> "decrement_entity_occurrence", id |-> x]
    /\ UNCHANGED <<detail, evidence, rag, tx, link, tenantRows, mention, chat, edge, graphVars>>

\* deactivate_entities_with_zero_occurrence(entity_ids = ids)
DeactivateZero(ids) ==
    /\ ids # {}
    /\ entity' = deactivate_entities_with_zero_occurrence(entity, ids)
    /\ last' = [op |-> "deactivate_entities_with_zero_occurrence", id |-> ids]
    /\ UNCHANGED <<detail, evidence, rag, tx, link, tenantRows, mention, chat, edge, graphVars>>

\* deactivate_entity(entity_id = x): SET is_active = false, confidence = 'low'
DeactivateEntity(x) ==
    /\ entity[x] # NoRow
    /\ entity' = [entity EXCEPT ![x].is_active = FALSE]
    /\ detail' = [detail EXCEPT ![x].confidence = "low"]
    /\ last' = [op |-> "deactivate_entity", id |-> x]
    /\ UNCHANGED <<evidence, rag, tx, link, tenantRows, mention, chat, edge, graphVars>>

InitEntity ==
    /\ \/ EmptyGraph /\ detail = [x \in EntityIds |-> NoRow]
       \/ BuiltGraph /\ detail = [x \in EntityIds |-> PlainDetail]
    /\ last = NoOp
    /\ NoEvidence
    /\ NoRag
    /\ NoJobs
    /\ NoCalls
    /\ NoEdgeCalls
    /\ NoReplay

\* the natural keys the upsert_entity calls of SpecEntity use
UpsertKeys == {"k1"}

NextEntity ==
    \/ \E k \in UpsertKeys, al \in AliasArgs, de \in Descriptions \cup {Null},
          co \in Confidences, em \in Embeddings \cup {Null} :
          UpsertEntityFull(k, al, de, co, em)
    \/ \E x \in EntityIds, dec \in 1..MaxMentionCount : DecrementOccurrence(x, dec)
    \/ \E ids \in SUBSET EntityIds : DeactivateZero(ids)
    \/ \E x \in EntityIds : DeactivateEntity(x)

SpecEntity == InitEntity /\ [][NextEntity]_vars

\* the step is an upsert_entity call that met a stored row of its key
UpsertCollides == last'.op = "upsert_entity" /\ last'.collided

\* C11: an upsert_entity call on the natural key of a deactivated entity leaves
\* that same row (same entity_id, still the only row of its key, no row added or
\* changed beside it) with is_active = true and occurrence_count = its previous
\* count + 1.
C11_UpsertReactivates ==
    [][(UpsertCollides /\ ~ last'.was_active) =>
          LET x == last'.id IN
          /\ entity[x] # NoRow /\ ~ entity[x].is_active
          /\ RowOfKey(entity', entity[x].key) = {x}
          /\ entity'[x].is_active
          /\ entity'[x].occurrence_count = entity[x].occurrence_count + 1
          /\ \A y \in EntityIds \ {x} : entity'[y] = entity[y]]_vars

\* the last step was an upsert_entity that met its key's row deactivated at count 0
C11_Witness ==
    /\ last.op = "upsert_entity"
    /\ last.collided /\ ~ last.was_active
    /\ entity[last.id].is_active
    /\ entity[last.id].occurrence_count = 1

\* C12: on a natural-key collision upsert_entity replaces the aliases by the
\* incoming list, overwrites the confidence by the incoming one, and changes the
\* stored embedding only when the call supplies one: without an embedding the
\* stored embedding stays what it was.
C12_CollisionFrame ==
    [][UpsertCollides =>
          LET x == last'.id IN
          /\ detail'[x].aliases = (IF last'.aliases = NoAliases THEN <<>> ELSE last'.aliases)
          /\ detail'[x].confidence = last'.confidence
          /\ detail'[x].embedding =
                (IF last'.embedding = Null THEN detail[x].embedding ELSE last'.embedding)]_vars

\* the last step was a colliding upsert_entity without an embedding, on a row
\* that holds one, with aliases and confidence other than the ingestion's
C12_Witness ==
    /\ last.op = "upsert_entity"
    /\ last.collided
    /\ last.embedding = Null
    /\ detail[last.id].embedding = "e2"
    /\ detail[last.id].aliases = <<"a1">>
    /\ detail[last.id].confidence = "high"

---------------------------------------------------------------------------
(* SpecEvidence: the evidence list of an edge under upsert_edge.           *)

\* the evidence lists the callers supply: ingestion passes [chunk_id], the
\* management page passes the comma-separated text field split as typed
EvidenceLists == {<<>>, <<"c1">>, <<"c2">>, <<"c1", "c1">>, <<"c2", "c1">>}

\* the order jsonb_agg(DISTINCT x) returns the chunk ids in
JsonOrder == <<"c1", "c2">>

\* SELECT jsonb_agg(DISTINCT x) FROM jsonb_array_elements(a || b) AS x:
\* the distinct elements, each once; NULL when there is no element (an aggregate
\* over no rows) or when a is NULL
DistinctUnion(a, b) ==
    IF a = Null \/ Range(a) \cup Range(b) = {} THEN Null
    ELSE SelectSeq(JsonOrder, LAMBDA c : c \in Range(a) \cup Range(b))

\* VALUES (.., evidence_chunk_ids) ON CONFLICT .. DO UPDATE SET
\*   evidence_chunk_ids = (SELECT jsonb_agg(DISTINCT x) FROM ..)
\* stored is the list of the row the key collides with; absent says there is no row
UpsertEvidence(absent, stored, incoming) ==
    IF absent THEN incoming ELSE DistinctUnion(stored, incoming)

\* upsert_edge(src, dst, "co_occurs", weight=0.5, evidence_chunk_ids=ids)
UpsertEdgeEvidence(p, ids) ==
    /\ edgeHist[p].n < MaxUpserts
    /\ edge' = [edge EXCEPT ![p] = UpsertEdgeRow(@, WeightHalf)]
    /\ evidence' = [evidence EXCEPT
                      ![p].ids = UpsertEvidence(edge[p] = NoRow, @, ids),
                      ![p].supplied = @ \cup Range(ids)]
    /\ edgeHist' = [edgeHist EXCEPT ![p].n = @ + 1]
    /\ UNCHANGED <<entity, jobs, worker, returned, raisedIn, crashes, conn, calls, replay,
                   detail, last, rag, tx, link, tenantRows, mention, chat>>

InitEvidence ==
    /\ entity = (1 :> EntityRow("k1", 2, TRUE) @@ 2 :> EntityRow("k2", 1, TRUE))
    /\ edge = [p \in EdgeKeys |-> NoRow]
    /\ NoJobs
    /\ NoCalls
    /\ NoEdgeCalls
    /\ NoReplay
    /\ NoBeyond

NextEvidence == \E p \in EdgeKeys, ids \in EvidenceLists : UpsertEdgeEvidence(p, ids)

SpecEvidence == InitEvidence /\ [][NextEvidence]_vars

NoDuplicates(s) == \A i, j \in DOMAIN s : s[i] = s[j] => i = j

\* C13: after any sequence of upsert_edge calls on an edge, the creating call
\* included, its evidence_chunk_ids holds no chunk id twice and holds exactly
\* the chunk ids of all the lists supplied so far, and its evidence_count is
\* the number of upsert_edge calls made on it.
C13_EvidenceIsDeduplicatedUnion ==
    \A p \in EdgeKeys : edge[p] # NoRow =>
        /\ evidence[p].ids # Null
        /\ NoDuplicates(evidence[p].ids)
        /\ Range(evidence[p].ids) = evidence[p].supplied
        /\ edge[p].evidence_count = edgeHist[p].n

---------------------------------------------------------------------------
(* The document store (functions/rag_pg_store.py).  A call opens its own   *)
(* connection (autocommit off), sets the session variables, executes its   *)
(* statements in one transaction and commits; "with self._connect() as     *)
(* conn" rolls the transaction back when an exception leaves the block.    *)
(* tx is the call in progress: pc is its position, writes the rows its     *)
(* open transaction has written, io the round trips it made to the store   *)
(* (the connection and every statement), result and error its outcome,     *)
(* before (history) the committed store when the call began.               *)

EmbedDim == 2           \* cfg.embed_dim, scaled down
DefaultTopK == 5        \* if top_k is None or int(top_k) <= 0: top_k = 5

MaxChunks == 3          \* chunk rows in the store before the searches (SpecSearch)
MaxTopK == 2            \* the top_k argument of search_chunks
MaxSearches == 1        \* search_chunks calls (SpecSearch)
MaxStoreCalls == 2      \* calls of the document store (SpecStore)
MaxChunkArgs == 2       \* chunks passed to one ingest_pdf or add_version_and_chunks

NoVector == <<>>        \* NULL in column embedding
Vectors == {<<0, 0>>, <<0, 1>>}
BadVector == <<1>>      \* an embedding of another dimension

\* the row a call's INSERT INTO chunks writes
ChunkRow(doc, ver, idx, text, emb) ==
    [doc |-> doc, version |-> ver, idx |-> idx, chunk_text |-> text, embedding |-> emb]

\* _vec_literal: raises ValueError unless len(v) = embed_dim
DimensionOk(v) == Len(v) = EmbedDim

\* psycopg.connect(.., autocommit=False)
AutocommitOn == TRUE

Autocommit == FALSE

\* one row written to a table
Write(table, row) == [table |-> table, row |-> row]

Apply(store, w) ==
    CASE w.table = "docs" -> [store EXCEPT !.docs = @ \cup {w.row}]
      [] w.table = "doc_versions" -> [store EXCEPT !.versions = @ \cup {w.row}]
      [] w.table = "chunks" -> [store EXCEPT !.chunks = Append(@, w.row)]
      [] w.table = "chunk" -> [store EXCEPT !.chunks[w.row.id] = w.row.chunk]
      [] w.table = "audit_search" -> [store EXCEPT !.audit = Append(@, w.row)]

\* conn.commit(): the rows the transaction wrote become the tables' rows
RECURSIVE Commit(_, _)
Commit(store, writes) ==
    IF writes = <<>> THEN store ELSE Commit(Apply(store, Head(writes)), Tail(writes))

\* cur.execute(<a writing statement>): the committed store and the transaction's
\* own rows after it
Executed(store, w) == IF Autocommit THEN Apply(store, w) ELSE store

Pending(writes, w) == IF Autocommit THEN writes ELSE Append(writes, w)

\* an exception leaves "with self._connect() as conn": the transaction is rolled
\* back, the connection closed, and the exception reaches the caller
CommitOnError(store, writes) == Commit(store, writes)

Rollback(store, writes) == store

\* a call of operation op at the start: nothing written, nothing executed
Call(op, n) ==
    [op |-> op, pc |-> "connect", n |-> n, text |-> Null, q |-> NoVector, top_k |-> 0,
     doc |-> 0, version |-> 0, chunks |-> <<>>, i |-> 0, id |-> 0,
     rows |-> <<>>, writes |-> <<>>, io |-> 0, before |-> rag,
     result |-> Null, error |-> Null]

CallsMade == IF tx.pc = "idle" THEN 0 ELSE tx.n

CallOver == tx.pc \in {"idle", "returned", "raised"}

Raises(error) ==
    /\ tx' = [tx EXCEPT !.pc = "raised", !.error = error, !.writes = <<>>]
    /\ rag' = Rollback(rag, tx.writes)

\* the call executes the writing statement w and moves to position pc
Executes(w, pc) ==
    /\ rag' = Executed(rag, w)
    /\ tx' = [tx EXCEPT !.pc = pc, !.io = @ + 1, !.writes = Pending(@, w)]

\* conn.commit() and the return of result
Commits(result) ==
    /\ rag' = Commit(rag, tx.writes)
    /\ tx' = [tx EXCEPT !.pc = "returned", !.io = @ + 1, !.writes = <<>>, !.result = result]

\* with self._connect() as conn: self._set_rls(conn, ctx)
Connects(pc) ==
    /\ tx.pc = "connect"
    /\ tx' = [tx EXCEPT !.pc = pc, !.io = @ + 1]
    /\ UNCHANGED rag

\* c.embedding <-> q is the Euclidean distance; the model keeps its square, which
\* orders the chunks the same way
RECURSIVE SumSq(_, _, _)
SumSq(a, b, i) ==
    IF i > Len(a) THEN 0 ELSE (a[i] - b[i]) * (a[i] - b[i]) + SumSq(a, b, i + 1)

Score(chunks, c, q) == SumSq(chunks[c].embedding, q, 1)

\* WHERE c.embedding IS NOT NULL
HasEmbedding(chunks, c) == chunks[c].embedding # NoVector

\* ORDER BY t.bscore (ascending): a row of score a may come before a row of score b
ScoreOrderDesc(a, b) == a >= b

ScoreOrder(a, b) == a <= b

Perms(S) ==
    {s \in [1..Cardinality(S) -> S] : \A i, j \in 1..Cardinality(S) : s[i] = s[j] => i = j}

\* SELECT .. FROM chunks c WHERE c.embedding IS NOT NULL ORDER BY bscore LIMIT k:
\* every result the statement can return (rows of equal score come in any order)
OrderByLimit(chunks, q, k) ==
    LET cands == {c \in DOMAIN chunks : HasEmbedding(chunks, c)}
        sorted == {s \in Perms(cands) :
                      \A i, j \in DOMAIN s :
                          i < j => ScoreOrder(Score(chunks, s[i], q), Score(chunks, s[j], q))}
    IN  {Take(s, k) : s \in sorted}

\* search_chunks(ctx, query_text, query_embedding, top_k) is called
SearchCall(text, q, k) ==
    /\ CallOver
    /\ tx' = [Call("search_chunks", CallsMade + 1) EXCEPT
                 !.text = text, !.q = q,
                 !.top_k = IF k <= 0 THEN DefaultTopK ELSE k]
    /\ UNCHANGED rag

SearchConnect == tx.op = "search_chunks" /\ Connects("literal")

\* qv = self._vec_literal(query_embedding)
SearchLiteral ==
    /\ tx.op = "search_chunks" /\ tx.pc = "literal"
    /\ IF DimensionOk(tx.q)
       THEN tx' = [tx EXCEPT !.pc = "select"] /\ UNCHANGED rag
       ELSE Raises("ValueError")

\* cur.execute(SELECT ..); rows = cur.fetchall()
SearchSelect ==
    /\ tx.op = "search_chunks" /\ tx.pc = "select"
    /\ \E rows \in OrderByLimit(rag.chunks, tx.q, tx.top_k) :
          tx' = [tx EXCEPT !.pc = "audit", !.rows = rows, !.io = @ + 1]
    /\ UNCHANGED rag

MinScore(chunks, rows, q) ==
    IF rows = <<>> THEN Null ELSE MinOf({Score(chunks, rows[i], q) : i \in DOMAIN rows})

MaxScore(chunks, rows, q) ==
    IF rows = <<>> THEN Null
    ELSE CHOOSE m \in {Score(chunks, rows[i], q) : i \in DOMAIN rows} :
            \A i \in DOMAIN rows : Score(chunks, rows[i], q) <= m

\* the row of INSERT INTO audit_search(.., query_text, top_k, .., hit_chunk_ids,
\* hit_doc_ids, score_min, score_max): empty hit lists are stored as NULL
AuditRow(chunks, text, q, k, rows) ==
    [query_text |-> text, top_k |-> k,
     hit_chunk_ids |-> IF rows = <<>> THEN Null ELSE rows,
     hit_doc_ids |-> IF rows = <<>> THEN Null ELSE [i \in DOMAIN rows |-> chunks[rows[i]].doc],
     score_min |-> MinScore(chunks, rows, q),
     score_max |-> MaxScore(chunks, rows, q)]

\* cur.execute(INSERT INTO audit_search ..)
SearchAudit ==
    /\ tx.op = "search_chunks" /\ tx.pc = "audit"
    /\ Executes(Write("audit_search",
                      AuditRow(rag.chunks, tx.text, tx.q, tx.top_k, tx.rows)), "commit")

\* conn.commit(), then the hits are built from rows and returned
SearchCommit ==
    /\ tx.op = "search_chunks" /\ tx.pc = "commit"
    /\ Commits(tx.rows)

\* the connection or a statement of the call raises (the store is unreachable, a
\* statement is rejected, the commit fails)
SearchFails ==
    /\ tx.op = "search_chunks" /\ tx.pc \in {"connect", "select", "audit", "commit"}
    /\ Raises("OperationalError")

StoreUnchanged ==
    UNCHANGED <<entity, edge, graphVars, detail, last, evidence, link, tenantRows, mention, chat>>

Texts == {"t1"}

NoGraph ==
    /\ detail = [x \in EntityIds |-> NoRow]
    /\ last = NoOp
    /\ NoEvidence
    /\ EmptyGraph
    /\ NoJobs
    /\ NoCalls
    /\ NoEdgeCalls
    /\ NoReplay
    /\ link = [l \in Links |-> NoLink]
    /\ tenantRows = [r \in Rows |-> 0]
    /\ mention = {}
    /\ chat = NoChat

\* the chunk tables the searches run on: up to MaxChunks rows of one document,
\* with equal embeddings (equal scores) and rows without embedding among them
InitSearch ==
    /\ \E n \in 0..MaxChunks : \E embs \in [1..n -> Vectors \cup {NoVector}] :
          rag = [EmptyStore EXCEPT
                    !.docs = IF n = 0 THEN {} ELSE {1},
                    !.versions = IF n = 0 THEN {} ELSE {<<1, 1>>},
                    !.chunks = [i \in 1..n |-> ChunkRow(1, 1, i, "t1", embs[i])]]
    /\ tx = NoCall
    /\ NoGraph

NextSearch ==
    \/ \E text \in Texts, q \in Vectors \cup {BadVector}, k \in 0..MaxTopK :
          CallsMade < MaxSearches /\ SearchCall(text, q, k) /\ StoreUnchanged
    \/ SearchConnect /\ StoreUnchanged
    \/ SearchLiteral /\ StoreUnchanged
    \/ SearchSelect /\ StoreUnchanged
    \/ SearchAudit /\ StoreUnchanged
    \/ SearchCommit /\ StoreUnchanged
    \/ SearchFails /\ StoreUnchanged

SpecSearch == InitSearch /\ [][NextSearch]_vars

\* the chunks of the store that have an embedding
Embedded == {c \in DOMAIN rag.chunks : rag.chunks[c].embedding # NoVector}

\* C14: for every query embedding of the configured dimension and every store
\* content, the rows search_chunks gets and returns are at most top_k (5 when
\* top_k is not positive), in order of non-decreasing distance to the query, and
\* are the top_k nearest of the chunks that have an embedding: all of them when
\* there are fewer, and no chunk left out is nearer than one returned.
C14_SearchReturnsNearest ==
    (tx.op = "search_chunks" /\ tx.pc \in {"audit", "commit", "returned"}) =>
        LET rows == tx.rows
            d(c) == SumSq(rag.chunks[c].embedding, tx.q, 1)
        IN  /\ Len(rows) <= tx.top_k
            /\ Len(rows) = Min(tx.top_k, Cardinality(Embedded))
            /\ Range(rows) \subseteq Embedded
            /\ \A i, j \in DOMAIN rows : i < j => rows[i] # rows[j] /\ d(rows[i]) <= d(rows[j])
            /\ \A c \in Embedded \ Range(rows) : \A i \in DOMAIN rows : d(rows[i]) <= d(c)
            /\ tx.pc = "returned" => tx.result = rows

\* a search has returned fewer chunks than the store has embedded, in an order
\* that the distances decide
C14_Witness ==
    /\ tx.op = "search_chunks" /\ tx.pc = "returned"
    /\ Len(tx.result) = 2
    /\ Cardinality(Embedded) = 3
    /\ SumSq(rag.chunks[tx.result[1]].embedding, tx.q, 1)
          < SumSq(rag.chunks[tx.result[2]].embedding, tx.q, 1)
    /\ tx.result[1] > tx.result[2]

\* C15: a search_chunks call that returns a result has committed exactly one
\* audit record, holding its query text, top_k, the returned chunk and document
\* ids and the least and greatest score; a call that raises has committed none
\* and returns no result; nothing is committed while the call is in progress.
C15_SearchAuditedInItsTransaction ==
    tx.op = "search_chunks" =>
        /\ tx.pc = "returned" =>
              /\ Len(rag.audit) = Len(tx.before.audit) + 1
              /\ rag.audit[Len(rag.audit)] =
                    AuditRow(rag.chunks, tx.text, tx.q, tx.top_k, tx.result)
        /\ tx.pc # "returned" => rag.audit = tx.before.audit /\ tx.result = Null

\* a search returned two chunks and its audit record is committed
C15_Witness ==
    /\ tx.op = "search_chunks" /\ tx.pc = "returned"
    /\ Len(tx.result) = 2
    /\ Len(rag.audit) = 1
    /\ rag.audit[1].hit_chunk_ids = tx.result
    /\ rag.audit[1].score_min < rag.audit[1].score_max

---------------------------------------------------------------------------
(* SpecStore: the writing calls of the document store, with searches and   *)
(* chat turns, one call after the other.                                   *)

\* the next generated doc_id (ids a rolled-back insert used are not given again,
\* which no statement of the model observes)
NewDocId == Cardinality(rag.docs) + 1

\* ingest_pdf(ctx, title, source_uri, classification, .., chunks, version_no = 1)
IngestCall(chunks) ==
    /\ CallOver
    /\ tx' = [Call("ingest_pdf", CallsMade + 1) EXCEPT !.chunks = chunks, !.version = 1]
    /\ UNCHANGED rag

\* add_version_and_chunks(ctx, doc_id, version_no, .., chunks) for a stored document
AddVersionCall(doc, ver, chunks) ==
    /\ CallOver
    /\ doc \in rag.docs /\ <<doc, ver>> \notin rag.versions
    /\ tx' = [Call("add_version_and_chunks", CallsMade + 1) EXCEPT
                 !.chunks = chunks, !.doc = doc, !.version = ver]
    /\ UNCHANGED rag

Ingesting == tx.op \in {"ingest_pdf", "add_version_and_chunks"}

IngestConnect ==
    /\ Ingesting
    /\ Connects(IF tx.op = "ingest_pdf" THEN "docs" ELSE "version")

\* INSERT INTO docs(..) RETURNING doc_id
IngestDoc ==
    /\ tx.op = "ingest_pdf" /\ tx.pc = "docs"
    /\ rag' = Executed(rag, Write("docs", NewDocId))
    /\ tx' = [tx EXCEPT !.pc = "version", !.io = @ + 1, !.doc = NewDocId,
                        !.writes = Pending(@, Write("docs", NewDocId))]

\* INSERT INTO doc_versions(doc_id, version_no, ..) RETURNING version_id
IngestVersion ==
    /\ Ingesting /\ tx.pc = "version"
    /\ rag' = Executed(rag, Write("doc_versions", <<tx.doc, tx.version>>))
    /\ tx' = [tx EXCEPT !.pc = IF tx.chunks = <<>> THEN "commit" ELSE "chunk",
                        !.io = @ + 1, !.i = 1,
                        !.writes = Pending(@, Write("doc_versions", <<tx.doc, tx.version>>))]

\* for idx, text, emb in chunks: vec_literal = self._vec_literal(emb);
\*     cur.execute(INSERT INTO chunks(..))
IngestChunk ==
    /\ Ingesting /\ tx.pc = "chunk"
    /\ IF DimensionOk(tx.chunks[tx.i])
       THEN LET w == Write("chunks", ChunkRow(tx.doc, tx.version, tx.i, "t1", tx.chunks[tx.i]))
            IN  /\ rag' = Executed(rag, w)
                /\ tx' = [tx EXCEPT !.pc = IF tx.i = Len(tx.chunks) THEN "commit" ELSE "chunk",
                                    !.io = @ + 1, !.i = @ + 1, !.writes = Pending(@, w)]
       ELSE Raises("ValueError")

\* conn.commit(); return doc_id (ingest_pdf) or version_id (add_version_and_chunks)
IngestCommit ==
    /\ Ingesting /\ tx.pc = "commit"
    /\ Commits(IF tx.op = "ingest_pdf" THEN tx.doc ELSE tx.version)

IngestFails ==
    /\ Ingesting /\ tx.pc \in {"connect", "docs", "version", "chunk", "commit"}
    /\ Raises("OperationalError")

\* update_chunk_text(ctx, chunk_id, new_chunk_text, new_embedding) for a stored chunk;
\* new_embedding = NoVector stands for new_embedding=None
UpdateCall(id, text, emb) ==
    /\ CallOver
    /\ id \in DOMAIN rag.chunks
    /\ tx' = [Call("update_chunk_text", CallsMade + 1) EXCEPT !.id = id, !.text = text, !.q = emb]
    /\ UNCHANGED rag

UpdateConnect == tx.op = "update_chunk_text" /\ Connects("update")

\* UPDATE chunks SET chunk_text = %s, .. [, embedding = %s::vector] WHERE chunk_id = %s
UpdateChunk ==
    /\ tx.op = "update_chunk_text" /\ tx.pc = "update"
    /\ IF tx.q = NoVector
       THEN Executes(Write("chunk", [id |-> tx.id,
                                     chunk |-> [rag.chunks[tx.id] EXCEPT !.chunk_text = tx.text]]),
                     "commit")
       ELSE IF DimensionOk(tx.q)
       THEN Executes(Write("chunk", [id |-> tx.id,
                                     chunk |-> [rag.chunks[tx.id] EXCEPT !.chunk_text = tx.text,
                                                                         !.embedding = tx.q]]),
                     "commit")
       ELSE Raises("ValueError")

UpdateCommit ==
    /\ tx.op = "update_chunk_text" /\ tx.pc = "commit"
    /\ Commits(Null)

UpdateFails ==
    /\ tx.op = "update_chunk_text" /\ tx.pc \in {"connect", "update", "commit"}
    /\ Raises("OperationalError")

\* user_text = (user_text or "").strip()
Strip(text) == IF text \in {"", " "} THEN "" ELSE text

\* chat_send(state, user_text) with the graph path off: an empty text returns
\* {"ok": False, "error": "text is empty", "state": state} at once; any other text
\* goes on to search_chunks(query_text, embed_text(query_text), top_k = vector_k),
\* where emb is what embed_text returned (it warns about a vector of another
\* dimension and returns it)
ChatSend(text, emb, vector_k) ==
    IF Strip(text) = ""
    THEN /\ CallOver
         /\ tx' = [Call("chat_send", CallsMade + 1) EXCEPT
                      !.pc = "returned", !.text = text, !.error = "text is empty"]
         /\ UNCHANGED rag
    ELSE SearchCall(Strip(text), emb, vector_k)

\* the chunk lists of an ingestion: valid embeddings and embeddings of another dimension
ChunkArgs ==
    UNION {[1..n -> {<<0, 0>>, BadVector}] : n \in 0..MaxChunkArgs}

InitStore ==
    /\ NoRag
    /\ NoGraph

StoreCall == CallsMade < MaxStoreCalls /\ StoreUnchanged

NextStore ==
    \/ \E chunks \in ChunkArgs : StoreCall /\ IngestCall(chunks)
    \/ \E doc \in rag.docs, chunks \in ChunkArgs : StoreCall /\ AddVersionCall(doc, 2, chunks)
    \/ \E id \in DOMAIN rag.chunks, emb \in {NoVector, <<0, 1>>, BadVector} :
          StoreCall /\ UpdateCall(id, "t2", emb)
    \/ \E q \in {<<0, 1>>, BadVector} : StoreCall /\ SearchCall("t1", q, MaxTopK)
    \/ \E text \in {"", " ", "t1"}, emb \in {<<0, 1>>, BadVector} :
          StoreCall /\ ChatSend(text, emb, MaxTopK)
    \/ IngestConnect /\ StoreUnchanged
    \/ IngestDoc /\ StoreUnchanged
    \/ IngestVersion /\ StoreUnchanged
    \/ IngestChunk /\ StoreUnchanged
    \/ IngestCommit /\ StoreUnchanged
    \/ IngestFails /\ StoreUnchanged
    \/ UpdateConnect /\ StoreUnchanged
    \/ UpdateChunk /\ StoreUnchanged
    \/ UpdateCommit /\ StoreUnchanged
    \/ UpdateFails /\ StoreUnchanged
    \/ SearchConnect /\ StoreUnchanged
    \/ SearchLiteral /\ StoreUnchanged
    \/ SearchSelect /\ StoreUnchanged
    \/ SearchAudit /\ StoreUnchanged
    \/ SearchCommit /\ StoreUnchanged
    \/ SearchFails /\ StoreUnchanged

SpecStore == InitStore /\ [][NextStore]_vars

\* the chunk rows of version ver of document doc, by chunk_index
ChunksOf(store, doc, ver) ==
    {store.chunks[c].idx : c \in {c \in DOMAIN store.chunks :
                                      store.chunks[c].doc = doc /\ store.chunks[c].version = ver}}

\* C16: ingestion is atomic.  While an ingest_pdf or add_version_and_chunks call
\* is in progress and after it has raised (at any step, so on the k-th chunk of a
\* wrong dimension), the committed store is what it was when the call began: no
\* row of the call is observable.  After it has returned, the document, its
\* version and every one of its chunks are there together.
C16_IngestionIsAtomic ==
    Ingesting =>
        IF tx.pc = "returned"
        THEN /\ tx.doc \in rag.docs
             /\ <<tx.doc, tx.version>> \in rag.versions
             /\ ChunksOf(rag, tx.doc, tx.version) = 1..Len(tx.chunks)
             /\ Len(rag.chunks) = Len(tx.before.chunks) + Len(tx.chunks)
        ELSE rag = tx.before

\* an ingestion raised on its second chunk, after the document, the version and
\* the first chunk were written, and nothing of it is in the store
C16_Witness ==
    /\ tx.op = "ingest_pdf" /\ tx.pc = "raised" /\ tx.error = "ValueError"
    /\ tx.i = 2 /\ tx.io = 4
    /\ rag.docs = {}

\* C17: a validation error is rejected before any I/O: a chat turn with an empty
\* text, and an ingestion, search or chunk update whose embedding has the wrong
\* dimension, end without a connection opened or a statement executed, and leave
\* the store unchanged.
C17_ValidationBeforeAnyIO ==
    (\/ tx.pc = "raised" /\ tx.error = "ValueError"
     \/ tx.op = "chat_send" /\ tx.pc = "returned") =>
        /\ tx.io = 0
        /\ rag = tx.before

---------------------------------------------------------------------------
(* SpecSession: the tenant context on the connections.  Every operation of *)
(* both stores that takes a context (ctx) begins                           *)
(*     with self._connect() as conn: self._set_rls(conn, ctx)              *)
(* on a connection of its own and runs its statements on it; the request   *)
(* threads (Links) make such calls concurrently.  The row-level policies   *)
(* of the database are not part of the sources; Policy states them as the  *)
(* specification describes them.                                           *)

MaxSessionCalls == 2    \* store calls the request threads make

\* the session variables _set_rls sets
SessionVars == {"app.current_app", "app.clearance", "app.request_id"}

\* a connection as psycopg.connect returns it: no variable set
Unset == [v \in SessionVars |-> Null]

Levels == 0..2

LevelText == <<"0", "1", "2">>

\* str(ctx.clearance)
Str(n) == LevelText[n + 1]

\* the cast of a level's text back to the level, as the policy compares it
IntOf(text) == CHOOSE n \in Levels : Str(n) = text

\* the contexts of the calls: a tenant's, or one whose tenant id was not propagated
Contexts == [app_id : Tenants \cup {Null}, clearance : {1}, request_id : {"r1"}]

\* cur.execute("SELECT set_config(name, value, false)")
SetConfigLost(session, name, value) == session

SetConfig(session, name, value) == [session EXCEPT ![name] = value]

\* the values _set_rls takes from the context
SessionValueShared(ctx, name) ==
    CASE name = "app.current_app" -> "A"
      [] name = "app.clearance" -> Str(ctx.clearance)
      [] name = "app.request_id" -> ctx.request_id

SessionValue(ctx, name) ==
    CASE name = "app.current_app" -> ctx.app_id
      [] name = "app.clearance" -> Str(ctx.clearance)
      [] name = "app.request_id" -> ctx.request_id

\* _set_rls(conn, ctx)
SetRls(session, ctx) ==
    LET app == SetConfig(session, "app.current_app", SessionValue(ctx, "app.current_app"))
        clr == SetConfig(app, "app.clearance", SessionValue(ctx, "app.clearance"))
    IN  SetConfig(clr, "app.request_id", SessionValue(ctx, "app.request_id"))

\* the operations modelled, the table each queries, whether its statement has
\* "WHERE app_id = %s" with ctx.app_id, and whether it modifies the rows it finds
SessionOps ==
    {"search_chunks", "update_chunk_text", "get_latest_version_id",
     "get_neighbor_entities", "fetch_pending_jobs"}

TableOf(op) ==
    CASE op \in {"search_chunks", "update_chunk_text"} -> "chunks"
      [] op = "get_latest_version_id" -> "doc_versions"
      [] op = "get_neighbor_entities" -> "entity_edge"
      [] op = "fetch_pending_jobs" -> "graph_job"

AppFilter(op) == op \in {"get_neighbor_entities", "fetch_pending_jobs"}

Modifies(op) == op \in {"update_chunk_text", "fetch_pending_jobs"}

Owner(r) == r[2]

\* every row is of classification 1
Classification(r) == 1

\* the row-level policy of the tables: a statement sees and writes the rows of the
\* tenant in app.current_app whose classification is within app.clearance, and no
\* row when the variables are not set
Policy(r, session) ==
    /\ session["app.current_app"] = Owner(r)
    /\ session["app.clearance"] # Null
    /\ Classification(r) <= IntOf(session["app.clearance"])

\* the rows the statement of op finds, whatever ids the caller passes
Matching(op, ctx, session) ==
    {r \in Rows : /\ r[1] = TableOf(op)
                  /\ Policy(r, session)
                  /\ AppFilter(op) => Owner(r) = ctx.app_id}

LinkOver(l) == link[l].pc \in {"idle", "returned", "raised"}

\* the calls the threads have made
LinkCalls ==
    LET made == {IF link[l].pc = "idle" THEN 0 ELSE link[l].n : l \in Links}
    IN  CHOOSE n \in made : \A m \in made : m <= n

\* a thread calls op(ctx, ..)
LinkCall(l, op, ctx) ==
    /\ LinkOver(l)
    /\ LinkCalls < MaxSessionCalls
    /\ link' = [link EXCEPT ![l] =
                    [op |-> op, pc |-> "connect", n |-> LinkCalls + 1, ctx |-> ctx,
                     session |-> Unset, queries |-> <<>>, result |-> {}, touched |-> {}]]
    /\ UNCHANGED <<tenantRows, mention>>

\* with self._connect() as conn
LinkConnect(l) ==
    /\ link[l].pc = "connect"
    /\ link' = [link EXCEPT ![l].pc = "set_rls", ![l].session = Unset]
    /\ UNCHANGED <<tenantRows, mention>>

\* self._set_rls(conn, ctx)
LinkSetRls(l) ==
    /\ link[l].pc = "set_rls"
    /\ link' = [link EXCEPT ![l].pc = "query",
                            ![l].session = SetRls(link[l].session, link[l].ctx)]
    /\ UNCHANGED <<tenantRows, mention>>

\* cur.execute(<the statement of op>): the rows it returns, the rows it modifies
LinkQuery(l) ==
    /\ link[l].pc = "query"
    /\ LET found == Matching(link[l].op, link[l].ctx, link[l].session)
       IN  link' = [link EXCEPT ![l].pc = "commit",
                                ![l].queries = Append(@, link[l].session),
                                ![l].result = IF Modifies(link[l].op)
                                                 /\ link[l].op # "fetch_pending_jobs"
                                              THEN {} ELSE found,
                                ![l].touched = IF Modifies(link[l].op) THEN found ELSE {}]
    /\ UNCHANGED <<tenantRows, mention>>

\* conn.commit() (or the normal end of the with-block) and the return
LinkCommit(l) ==
    /\ link[l].pc = "commit"
    /\ link' = [link EXCEPT ![l].pc = "returned"]
    /\ tenantRows' = [r \in Rows |-> IF r \in link[l].touched THEN tenantRows[r] + 1
                                     ELSE tenantRows[r]]
    /\ UNCHANGED mention

\* the connection or a statement raises: rollback, nothing is returned
LinkFails(l) ==
    /\ link[l].pc \in {"connect", "set_rls", "query", "commit"}
    /\ link' = [link EXCEPT ![l].pc = "raised", ![l].result = {}]
    /\ UNCHANGED <<tenantRows, mention>>

SessionUnchanged ==
    UNCHANGED <<entity, edge, graphVars, detail, last, evidence, rag, tx, chat>>

InitSession ==
    /\ NoRag
    /\ NoGraph

NextSession ==
    \/ \E l \in Links, op \in SessionOps, ctx \in Contexts :
          LinkCall(l, op, ctx) /\ SessionUnchanged
    \/ \E l \in Links : LinkConnect(l) /\ SessionUnchanged
    \/ \E l \in Links : LinkSetRls(l) /\ SessionUnchanged
    \/ \E l \in Links : LinkQuery(l) /\ SessionUnchanged
    \/ \E l \in Links : LinkCommit(l) /\ SessionUnchanged
    \/ \E l \in Links : LinkFails(l) /\ SessionUnchanged

SpecSession == InitSession /\ [][NextSession]_vars

\* the calls in progress or over
Called == {l \in Links : link[l].pc # "idle"}

\* C18: for every store operation that takes a context, the three session
\* variables of that context are set on its connection when its first query is
\* about to execute, and every query a connection executed ran with the tenant
\* id, clearance and request id of the calling context as the variables last set
\* on that connection.
C18_SessionSetBeforeQueries ==
    \A l \in Called :
        LET ctx == link[l].ctx
            OfCtx(session) ==
                /\ session["app.current_app"] = ctx.app_id
                /\ session["app.clearance"] = Str(ctx.clearance)
                /\ session["app.request_id"] = ctx.request_id
        IN  /\ link[l].pc = "query" => OfCtx(link[l].session)
            /\ \A i \in DOMAIN link[l].queries : OfCtx(link[l].queries[i])
            /\ link[l].pc \in {"connect", "set_rls"} => link[l].queries = <<>>

\* two threads with contexts of different tenants: one has executed its query,
\* the other is about to
C18_Witness ==
    /\ link["x"].pc = "returned" /\ link["x"].ctx.app_id = "A"
    /\ Len(link["x"].queries) = 1
    /\ link["y"].pc = "query" /\ link["y"].ctx.app_id = "B"

---------------------------------------------------------------------------
(* SpecMerge: the candidate list of chat_send (core.py).  graph_hits are   *)
(* the rows get_chunks_by_ids returned for the graph path, vector_hits the *)
(* rows search_chunks returned; each store call returns a chunk at most    *)
(* once.  recall_k is config.RERANK_CANDIDATES, a positive quota (the code *)
(* leaves the list whole when it is 0).                                    *)

MaxHits == 2            \* hits one path returns
MaxRecall == 3          \* config.RERANK_CANDIDATES

\* the chunks the two paths can find
HitChunks == {"c1", "c2", "c3"}

\* a hit of one path: the row of chunk c, marked (history) with the path that found it
Hit(c, path) == [chunk_id |-> c, path |-> path]

\* the lists a path can return: up to MaxHits chunks, none twice
HitLists(path) ==
    {[i \in DOMAIN s |-> Hit(s[i], path)] :
        s \in {t \in UNION {[1..n -> HitChunks] : n \in 0..MaxHits} :
                  \A i, j \in DOMAIN t : t[i] = t[j] => i = j}}

\* for h in (graph_hits + vector_hits)
CandidatesVectorFirst(graph_hits, vector_hits) == vector_hits \o graph_hits

Candidates(graph_hits, vector_hits) == graph_hits \o vector_hits

\* the loop: cid = h.get("chunk_id"); if not cid or cid in seen: continue;
\* seen.add(cid); hits.append(h)
RECURSIVE MergeHits(_, _, _)
MergeHits(rest, seen, hits) ==
    IF rest = <<>> THEN hits
    ELSE LET h == Head(rest)
             cid == h.chunk_id
         IN  IF cid = Null \/ cid \in seen
             THEN MergeHits(Tail(rest), seen, hits)
             ELSE MergeHits(Tail(rest), seen \cup {cid}, Append(hits, h))

\* if recall_k and len(hits) > recall_k: hits = hits[:recall_k]
Truncate(hits, recall_k) ==
    IF recall_k # 0 /\ Len(hits) > recall_k THEN SubSeq(hits, 1, recall_k) ELSE hits

\* both paths have returned: the union is built
ChatMerge ==
    /\ chat.pc = "merge"
    /\ chat' = [chat EXCEPT !.pc = "truncate",
                            !.hits = MergeHits(Candidates(chat.graph_hits, chat.vector_hits),
                                               {}, <<>>)]

ChatTruncate ==
    /\ chat.pc = "truncate"
    /\ chat' = [chat EXCEPT !.pc = "merged", !.hits = Truncate(chat.hits, chat.recall_k)]

MergeUnchanged ==
    UNCHANGED <<entity, edge, graphVars, detail, last, evidence, rag, tx, link, tenantRows, mention>>

InitMerge ==
    /\ \E g \in HitLists("graph"), v \in HitLists("vector"), k \in 1..MaxRecall :
          chat = [pc |-> "merge", graph_hits |-> g, vector_hits |-> v, recall_k |-> k,
                  hits |-> <<>>]
    /\ rag = EmptyStore
    /\ tx = NoCall
    /\ link = [l \in Links |-> NoLink]
    /\ tenantRows = [r \in Rows |-> 0]
    /\ mention = {}
    /\ detail = [x \in EntityIds |-> NoRow]
    /\ last = NoOp
    /\ NoEvidence
    /\ EmptyGraph
    /\ NoJobs
    /\ NoCalls
    /\ NoEdgeCalls
    /\ NoReplay

NextMerge ==
    \/ ChatMerge /\ MergeUnchanged
    \/ ChatTruncate /\ MergeUnchanged

SpecMerge == InitMerge /\ [][NextMerge]_vars

\* the chunk ids of a list of hits, and the place of a chunk in it
IdsOf(hits) == {hits[i].chunk_id : i \in DOMAIN hits}

PlaceIn(hits, c) == CHOOSE i \in DOMAIN hits : hits[i].chunk_id = c

\* C20: the candidate list holds no chunk id twice; it takes each chunk from the
\* graph path when both paths found it; every graph-path candidate in it precedes
\* every candidate only the vector path found; inside each path the order of the
\* path is kept; and it is the first rerankCandidates entries of the whole union:
\* its length is the smaller of rerankCandidates and the number of distinct
\* chunks, and no chunk left out comes before a chunk kept.
C20_CandidatesAreOrderedUnion ==
    chat.pc = "merged" =>
        LET out == chat.hits
            G == IdsOf(chat.graph_hits)
            V == IdsOf(chat.vector_hits)
            \* c comes before d in the untruncated union
            Before(c, d) ==
                \/ c \in G /\ d \notin G
                \/ c \in G /\ d \in G
                      /\ PlaceIn(chat.graph_hits, c) < PlaceIn(chat.graph_hits, d)
                \/ c \notin G /\ d \notin G
                      /\ PlaceIn(chat.vector_hits, c) < PlaceIn(chat.vector_hits, d)
        IN  /\ \A i, j \in DOMAIN out : out[i].chunk_id = out[j].chunk_id => i = j
            /\ IdsOf(out) \subseteq G \cup V
            /\ \A i \in DOMAIN out : out[i].path = "graph" <=> out[i].chunk_id \in G
            /\ \A i, j \in DOMAIN out : i < j => Before(out[i].chunk_id, out[j].chunk_id)
            /\ Len(out) = Min(chat.recall_k, Cardinality(G \cup V))
            /\ \A c \in (G \cup V) \ IdsOf(out) : \A i \in DOMAIN out : Before(out[i].chunk_id, c)

\* both paths found c1, the vector path found it first in its own list, and the
\* union was cut: c2 of the graph path and c1 are kept, c3 of the vector path is not
C20_Witness ==
    /\ chat.pc = "merged"
    /\ chat.graph_hits = <<Hit("c2", "graph"), Hit("c1", "graph")>>
    /\ chat.vector_hits = <<Hit("c1", "vector"), Hit("c3", "vector")>>
    /\ chat.recall_k = 2
    /\ chat.hits = <<Hit("c2", "graph"), Hit("c1", "graph")>>

---------------------------------------------------------------------------
(* SpecPass: the merge pass before rerank (functions/chunkfunc.py).  A     *)
(* chunk_text is the sequence of its lines; the first line may be the      *)
(* header build_meta_header wrote at ingestion.                            *)

MaxPassHits == 3        \* hits handed to the merge pass
MergeMaxLines == 4      \* config.PRE_RERANK_MERGE_MAX_CHARS, counted in lines

\* the header lines of the model, and what parse_meta_header reads in each
MetaLines ==
    {"[[META type=text page=1]]", "[[META type=table page=3]]",
     "[[META type=Tables page=3]]", "[[META type=text page=3]]",
     "[[META type=Figures page=3]]"}

NoMeta == [type |-> "", page |-> Null, caption |-> ""]

\* parse_meta_header(text): {} unless the first line is a [[META ...]] header
parse_meta_header(text) ==
    IF text = <<>> \/ text[1] \notin MetaLines THEN NoMeta
    ELSE CASE text[1] = "[[META type=text page=1]]" ->
                  [type |-> "text", page |-> "1", caption |-> ""]
           [] text[1] = "[[META type=table page=3]]" ->
                  [type |-> "table", page |-> "3", caption |-> ""]
           [] text[1] = "[[META type=Tables page=3]]" ->
                  [type |-> "Tables", page |-> "3", caption |-> ""]
           [] text[1] = "[[META type=text page=3]]" ->
                  [type |-> "text", page |-> "3", caption |-> ""]
           [] text[1] = "[[META type=Figures page=3]]" ->
                  [type |-> "Figures", page |-> "3", caption |-> ""]

\* key = f"{t}:{page}:{caption}" or f"{t}:{page}" for a table or figure, else
\* f"text:{page}"
MergeKey(text) ==
    LET meta == parse_meta_header(text)
    IN  IF meta.type \in {"table", "figure"}
        THEN IF meta.caption # "" THEN <<meta.type, meta.page, meta.caption>>
             ELSE <<meta.type, meta.page>>
        ELSE <<"text", meta.page>>

\* add_txt without its META header line
BodyWithHeader(text) == text

Body(text) == IF text # <<>> /\ text[1] \in MetaLines THEN Tail(text) ELSE text

\* cur["chunk_text"] = (cur_txt.rstrip() + "\n\n" + add_txt).strip()
Joined(cur, add) == IF Body(add) = <<>> THEN cur ELSE cur \o <<"">> \o Body(add)

\* h["chunk_text"] = h["chunk_text"][:max_chars] + "\n...(merged truncated)"
CapText(text) ==
    IF Len(text) > MergeMaxLines
    THEN SubSeq(text, 1, MergeMaxLines) \o <<"...(merged truncated)">>
    ELSE text

\* the loop over hits: keys are the keys seen, merged the records made for them
\* (new_h = dict(h), a copy)
RECURSIVE MergeByKey(_, _, _)
MergeByKey(rest, keys, merged) ==
    IF rest = <<>> THEN merged
    ELSE LET h == Head(rest)
             key == MergeKey(h.chunk_text)
         IN  IF \A n \in DOMAIN keys : keys[n] # key
             THEN MergeByKey(Tail(rest), Append(keys, key), Append(merged, h))
             ELSE LET n == CHOOSE n \in DOMAIN keys : keys[n] = key
                  IN  MergeByKey(Tail(rest), keys,
                                 [merged EXCEPT ![n].chunk_text = Joined(@, h.chunk_text)])

merge_hits_by_page_or_caption(hits) ==
    LET merged == MergeByKey(hits, <<>>, <<>>)
    IN  [n \in DOMAIN merged |-> [merged[n] EXCEPT !.chunk_text = CapText(@)]]

\* a hit with its text
TextHit(c, text) == [chunk_id |-> c, path |-> "vector", chunk_text |-> text]

PassTexts ==
    {<<"[[META type=text page=1]]", "A">>,
     <<"[[META type=text page=1]]", "B">>,
     <<"[[META type=table page=3]]", "T1", "T2">>,
     <<"[[META type=Tables page=3]]", "T3", "T4">>,
     <<"no header">>}

ChatPass ==
    /\ chat.pc = "pass"
    /\ chat' = [chat EXCEPT !.pc = "passed", !.hits = merge_hits_by_page_or_caption(chat.hits)]

PassUnchanged ==
    UNCHANGED <<entity, edge, graphVars, detail, last, evidence, rag, tx, link, tenantRows, mention>>

\* nothing but the chat turn is in use
OnlyChat ==
    /\ rag = EmptyStore
    /\ tx = NoCall
    /\ link = [l \in Links |-> NoLink]
    /\ tenantRows = [r \in Rows |-> 0]
    /\ mention = {}
    /\ detail = [x \in EntityIds |-> NoRow]
    /\ last = NoOp
    /\ NoEvidence
    /\ EmptyGraph
    /\ NoJobs
    /\ NoCalls
    /\ NoEdgeCalls
    /\ NoReplay

InitPass ==
    /\ \E n \in 0..MaxPassHits : \E texts \in [1..n -> PassTexts] :
          LET hits == [i \in 1..n |-> TextHit(i, texts[i])]
          IN  chat = [pc |-> "pass", input |-> hits, hits |-> hits]
    /\ OnlyChat

NextPass == ChatPass /\ PassUnchanged

SpecPass == InitPass /\ [][NextPass]_vars

\* the places of the input where a grouping key appears for the first time
FirstOfKey(hits) ==
    {i \in DOMAIN hits :
        \A j \in 1..(i - 1) : MergeKey(hits[j].chunk_text) # MergeKey(hits[i].chunk_text)}

\* the text of hit i followed by the bodies, headers stripped, of the hits of its
\* key among the hits up to j
RECURSIVE Gathered(_, _, _)
Gathered(hits, i, j) ==
    IF j <= i THEN hits[i].chunk_text
    ELSE LET text == hits[j].chunk_text
             body == IF text[1] \in MetaLines THEN Tail(text) ELSE text
         IN  IF MergeKey(text) = MergeKey(hits[i].chunk_text)
             THEN Gathered(hits, i, j - 1) \o <<"">> \o body
             ELSE Gathered(hits, i, j - 1)

\* the n-th record of the merge pass is made from the n-th first-of-key hit
MadeFrom(n) ==
    CHOOSE i \in FirstOfKey(chat.input) :
        Cardinality({j \in FirstOfKey(chat.input) : j <= i}) = n

\* C26 (as stated): the merge pass returns one record per distinct grouping key,
\* in the order the keys first appear; each record's text is the first candidate's
\* text followed by the bodies of the later candidates of its key, in input order,
\* headers stripped.
C26_MergePassGathersByKey ==
    chat.pc = "passed" =>
        /\ Len(chat.hits) = Cardinality(FirstOfKey(chat.input))
        /\ \A n \in DOMAIN chat.hits :
              /\ chat.hits[n].chunk_id = chat.input[MadeFrom(n)].chunk_id
              /\ chat.hits[n].chunk_text = Gathered(chat.input, MadeFrom(n), Len(chat.input))

\* C26 (amended): as stated, except that a record's text longer than the ceiling
\* is cut to the ceiling and ends with the truncation marker.
C26_MergePassGathersAndCaps ==
    chat.pc = "passed" =>
        /\ Len(chat.hits) = Cardinality(FirstOfKey(chat.input))
        /\ \A n \in DOMAIN chat.hits :
              LET whole == Gathered(chat.input, MadeFrom(n), Len(chat.input))
              IN  /\ chat.hits[n].chunk_id = chat.input[MadeFrom(n)].chunk_id
                  /\ chat.hits[n].chunk_text =
                        IF Len(whole) <= MergeMaxLines THEN whole
                        ELSE SubSeq(whole, 1, MergeMaxLines) \o <<"...(merged truncated)">>
                  /\ \A i \in DOMAIN chat.input :
                        chat.input[i] = TextHit(i, chat.input[i].chunk_text)

\* the two text chunks of page 1 became one record, A then B's body, ahead of the
\* table of page 3
C26_Witness ==
    /\ chat.pc = "passed"
    /\ Len(chat.input) = 3
    /\ Len(chat.hits) = 2
    /\ chat.hits[1].chunk_text = <<"[[META type=text page=1]]", "A", "", "B">>
    /\ chat.hits[1].chunk_id = 1
    /\ chat.hits[2].chunk_id = 2
    /\ chat.input[3].chunk_text = <<"[[META type=text page=1]]", "B">>

---------------------------------------------------------------------------
(* SpecRerank: the rerank step (functions/rerank_client.py) and the scorer *)
(* it posts to (relateddocker/rerank-docker/app.py).  Scores are tenths:   *)
(* 4 stands for 0.4.                                                       *)

MaxRerankHits == 3      \* candidates handed to rerank_hits
MaxRerankTopK == 2      \* the top_k argument (config.PDF_TOP_K_CHUNKS)
RerankMinScore == 4     \* config.RERANK_MIN_SCORE = 0.4

\* getattr(config, "RERANK_MIN_SCORE", None): <<>> is None
Thresholds == {<<>>, <<RerankMinScore>>}

ScoreValues == {1, 5, 7}

DocTexts == {<<"x">>, <<"y">>}

\* app.py rerank: idx = sorted(range(len(scores)), key=scores, reverse=True), a
\* stable sort; top = idx[:min(top_k, len(idx))]; one {doc, score} item for each
ScorerResponse(docs, score, top_k) ==
    LET idx == CHOOSE p \in Perms(DOMAIN docs) :
                   \A a, b \in DOMAIN p :
                       a < b => \/ score[docs[p[a]]] > score[docs[p[b]]]
                                \/ score[docs[p[a]]] = score[docs[p[b]]] /\ p[a] < p[b]
        top == SubSeq(idx, 1, Min(top_k, Len(idx)))
    IN  [r \in DOMAIN top |-> [doc |-> docs[top[r]], score |-> score[docs[top[r]]]]]

\* min_score is not None and score is not None and float(score) < float(min_score)
NeverBelow(score, min_score) == FALSE

BelowThreshold(score, min_score) == min_score # <<>> /\ score < min_score[1]

\* the loop over the scorer's items: i = docs.index(d), kept once
RECURSIVE RerankOrder(_, _, _, _)
RerankOrder(results, docs, min_score, order) ==
    IF results = <<>> THEN order
    ELSE LET item == Head(results)
             found == {i \in DOMAIN docs : docs[i] = item.doc}
             skip == \/ BelowThreshold(item.score, min_score)
                     \/ found = {}
                     \/ MinOf(found) \in Range(order)
         IN  RerankOrder(Tail(results), docs, min_score,
                         IF skip THEN order ELSE Append(order, MinOf(found)))

\* the indexes the scorer's items did not give, in input order
RECURSIVE Unused(_, _, _)
Unused(n, i, order) ==
    IF i > n THEN <<>>
    ELSE (IF i \in Range(order) THEN <<>> ELSE <<i>>) \o Unused(n, i + 1, order)

\* rerank_hits(query, hits, top_k), given the scorer's results
rerank_hits(hits, results, min_score) ==
    LET docs == [i \in DOMAIN hits |-> hits[i].chunk_text]
        kept == RerankOrder(results, docs, min_score, <<>>)
        order == IF min_score = <<>> THEN kept \o Unused(Len(docs), 1, kept)
                 ELSE IF kept = <<>> THEN [i \in DOMAIN docs |-> i]
                 ELSE kept
    IN  IF hits = <<>> THEN hits ELSE [n \in DOMAIN order |-> hits[order[n]]]

\* rerank_results: the POST to the scorer returns
ChatScore ==
    /\ chat.pc = "score"
    /\ chat' = [chat EXCEPT !.pc = "rerank",
                            !.results = ScorerResponse([i \in DOMAIN chat.hits |->
                                                            chat.hits[i].chunk_text],
                                                       chat.score, chat.top_k)]

ChatRerank ==
    /\ chat.pc = "rerank"
    /\ chat' = [chat EXCEPT !.pc = "reranked",
                            !.hits = rerank_hits(chat.hits, chat.results, chat.min_score)]

InitRerank ==
    /\ \E n \in 1..MaxRerankHits, k \in 1..MaxRerankTopK, min_score \in Thresholds :
       \E texts \in [1..n -> DocTexts], score \in [DocTexts -> ScoreValues] :
          LET hits == [i \in 1..n |-> TextHit(i, texts[i])]
          IN  chat = [pc |-> "score", input |-> hits, hits |-> hits, score |-> score,
                      top_k |-> k, min_score |-> min_score, results |-> <<>>]
    /\ OnlyChat

NextRerank ==
    \/ ChatScore /\ PassUnchanged
    \/ ChatRerank /\ PassUnchanged

SpecRerank == InitRerank /\ [][NextRerank]_vars

\* the scorer's items that reach the threshold
Passing == {r \in DOMAIN chat.results : chat.results[r].score >= RerankMinScore}

\* C24: with a minimum score configured, rerank_hits returns only candidates
\* whose returned score is at least the threshold, each once, in the order of the
\* scorer's items, and every text that passed is there; when no item reaches the
\* threshold the result is the whole candidate list in its order, so the result of
\* a non-empty candidate list is never empty.
C24_ThresholdFiltersOrFallsBack ==
    (chat.pc = "reranked" /\ chat.min_score # <<>>) =>
        LET out == chat.hits
            FirstPassing(text) ==
                MinOf({r \in Passing : chat.results[r].doc = text})
        IN  /\ out # <<>>
            /\ IF Passing = {} THEN out = chat.input
               ELSE /\ \A n \in DOMAIN out :
                          /\ \E i \in DOMAIN chat.input : out[n] = chat.input[i]
                          /\ \E r \in Passing : chat.results[r].doc = out[n].chunk_text
                    /\ \A n, m \in DOMAIN out :
                          n < m => FirstPassing(out[n].chunk_text)
                                      < FirstPassing(out[m].chunk_text)
                    /\ \A r \in Passing :
                          \E n \in DOMAIN out : out[n].chunk_text = chat.results[r].doc

\* two of three candidates were scored, one below the threshold: the other is the
\* result
C24_Witness ==
    /\ chat.pc = "reranked" /\ chat.min_score # <<>>
    /\ Len(chat.input) = 3
    /\ Len(chat.results) = 2
    /\ Cardinality(Passing) = 1
    /\ Len(chat.hits) = 1
    /\ chat.hits[1].chunk_id = 2

\* C25: after the rerank step the hit list holds at most top_k hits, with or
\* without a minimum score, and when the threshold fallback is taken.
C25_AtMostTopKAfterRerank ==
    chat.pc = "reranked" => Len(chat.hits) <= chat.top_k

---------------------------------------------------------------------------
(* SpecChat: one chat_send query (core.py) from entity extraction to the   *)
(* returned result, over an ingested document and a built graph, while     *)
(* deactivate_entity runs beside it.  Every call that can raise does so    *)
(* nondeterministically.                                                    *)

TextA == <<"[[META type=text page=1]]", "A">>
TextB == <<"[[META type=text page=1]]", "B">>
TextT == <<"[[META type=table page=3]]", "T1">>

\* the chunk texts of the ingested document: two text chunks of page 1, or a text
\* chunk and a table of page 3
ChatDocs == {<<TextA, TextB>>, <<TextA, TextT>>}

\* ingest_pdf(.., chunks) committed: the store holds the document's rows
Ingested(texts) ==
    Commit(EmptyStore,
           <<Write("docs", 1), Write("doc_versions", <<1, 1>>),
             Write("chunks", ChunkRow(1, 1, 1, texts[1], <<0, 0>>)),
             Write("chunks", ChunkRow(1, 1, 2, texts[2], <<0, 1>>))>>)

\* chunk_id of the n-th row of table chunks
ChunkName(n) == <<"c1", "c2", "c3">>[n]

\* chunk_id of a row of table chunks
ChunkIdOf(row) == ChunkName(row.idx)

\* rows of table entity_chunk: entity 1 is mentioned in c1, entity 2 twice in c2
EntityChunk ==
    {[entity_id |-> 1, chunk_id |-> "c1", mention_count |-> 1],
     [entity_id |-> 2, chunk_id |-> "c2", mention_count |-> 2]}

\* find_entities_by_name_or_alias: WHERE app_id = %s AND is_active = true AND name ..
find_entities_by_name_or_alias(name) ==
    {x \in EntityIds : entity[x] # NoRow /\ entity[x].is_active /\ entity[x].key = name}

\* find_entities_by_embedding: WHERE is_active = true AND embedding IS NOT NULL,
\* nearest first down to min_similarity: every set of rows it can return
find_entities_by_embedding ==
    SUBSET {x \in EntityIds : /\ entity[x] # NoRow /\ entity[x].is_active
                              /\ detail[x].embedding # Null}

\* get_neighbor_entities: JOIN entity e ON ee.dst_entity_id = e.entity_id
\* WHERE ee.src_entity_id = ANY(seed_ids) AND e.is_active = true
get_neighbor_entities(seed_ids) ==
    {p[2] : p \in {e \in EdgeKeys : /\ e[1] \in seed_ids /\ edge[e] # NoRow
                                    /\ entity[e[2]] # NoRow /\ entity[e[2]].is_active}}

\* list_chunk_ids_by_entities: SELECT chunk_id, SUM(mention_count) AS score FROM
\* entity_chunk WHERE entity_id = ANY(entity_ids) GROUP BY chunk_id
\* ORDER BY score DESC LIMIT limit: every list the statement can return
list_chunk_ids_by_entities(entity_ids, limit) ==
    LET rows == {m \in mention : m.entity_id \in entity_ids}
        ids == {m.chunk_id : m \in rows}
        RECURSIVE Sum(_)
        Sum(S) == IF S = {} THEN 0
                  ELSE LET m == CHOOSE m \in S : TRUE
                       IN  m.mention_count + Sum(S \ {m})
        score(c) == Sum({m \in rows : m.chunk_id = c})
    IN  {Take(s, limit) : s \in {t \in Perms(ids) :
                                    \A i, j \in DOMAIN t : i < j => score(t[i]) >= score(t[j])}}

\* a row of table chunks as the store's methods return it
ChunkHit(chunks, n, path) ==
    [chunk_id |-> ChunkIdOf(chunks[n]), path |-> path, chunk_text |-> chunks[n].chunk_text]

\* get_chunks_by_ids: WHERE chunk_id = ANY(ids) ORDER BY array_position(ids, chunk_id)
get_chunks_by_ids(chunks, ids) ==
    LET found == SelectSeq(ids, LAMBDA c : \E n \in DOMAIN chunks : ChunkIdOf(chunks[n]) = c)
    IN  [i \in DOMAIN found |->
            ChunkHit(chunks, CHOOSE n \in DOMAIN chunks : ChunkIdOf(chunks[n]) = found[i],
                     "graph")]

\* search_chunks(query_embedding = q, top_k = k): every list it can return
search_chunks(chunks, q, k) ==
    {[i \in DOMAIN s |-> ChunkHit(chunks, s[i], "vector")] : s \in OrderByLimit(chunks, q, k)}

\* the union, the cut to recall_k and the merge pass of chat_send
Assemble(graph_hits, vector_hits, recall_k) ==
    merge_hits_by_page_or_caption(
        Truncate(MergeHits(Candidates(graph_hits, vector_hits), {}, <<>>), recall_k))

\* the exception leaves the try block of chat_send
ChatRaise(step) == chat' = [chat EXCEPT !.pc = "except", !.failed = @ \cup {step}]

\* q_entities = _extract_entities_from_text(user_text): an exception of the model
\* call is caught there and [] returned
ChatExtract ==
    /\ chat.pc = "extract"
    /\ \E fails \in BOOLEAN :
          chat' = [chat EXCEPT !.pc = IF fails \/ chat.mentioned = <<>> THEN "search"
                                      ELSE "name",
                               !.ents = IF fails THEN <<>> ELSE chat.mentioned,
                               !.failed = IF fails THEN @ \cup {"extract"} ELSE @]

\* _find_entities_hybrid: matches = graph_store.find_entities_by_name_or_alias(..),
\* outside any try
ChatFindByName ==
    /\ chat.pc = "name"
    /\ \/ ChatRaise("find_entities_by_name_or_alias")
       \/ chat' = [chat EXCEPT !.pc = "embedding",
                               !.seed_ids = find_entities_by_name_or_alias(chat.ents[1])]

\* _find_entities_hybrid: embed_text and find_entities_by_embedding in try/except;
\* then, in chat_send, seed_ids is what the lookups gave
ChatFindByEmbedding ==
    /\ chat.pc = "embedding"
    /\ \/ chat' = [chat EXCEPT !.pc = IF chat.seed_ids = {} THEN "search" ELSE "neighbors",
                               !.failed = @ \cup {"find_entities_by_embedding"}]
       \/ \E sem \in find_entities_by_embedding :
             chat' = [chat EXCEPT !.pc = IF chat.seed_ids \cup sem = {} THEN "search"
                                         ELSE "neighbors",
                                  !.seed_ids = @ \cup sem]

\* if seed_ids: neighbors = graph_store.get_neighbor_entities(gctx, seed_ids);
\* extra_terms = the names of the seeds and of the neighbours
ChatNeighbors ==
    /\ chat.pc = "neighbors"
    /\ \/ ChatRaise("get_neighbor_entities")
       \/ chat' = [chat EXCEPT !.pc = "chunk_ids",
                               !.extra_terms = chat.seed_ids
                                                  \cup get_neighbor_entities(chat.seed_ids)]

\* if graph_k > 0 and seed_ids: graph_store.list_chunk_ids_by_entities(gctx, seed_ids);
\* stale (history): the seeds that are inactive when the statement runs
ChatChunkIds ==
    /\ chat.pc = "chunk_ids"
    /\ \/ ChatRaise("list_chunk_ids_by_entities")
       \/ \E ids \in list_chunk_ids_by_entities(chat.seed_ids, MaxHits) :
             chat' = [chat EXCEPT !.pc = IF ids = <<>> THEN "search" ELSE "resolve",
                                  !.graph_chunk_ids = ids,
                                  !.stale = {x \in chat.seed_ids : ~entity[x].is_active}]

\* if graph_chunk_ids: graph_hits = pg_store.get_chunks_by_ids(ctx, graph_chunk_ids)
ChatResolve ==
    /\ chat.pc = "resolve"
    /\ \/ ChatRaise("get_chunks_by_ids")
       \/ chat' = [chat EXCEPT !.pc = "search",
                               !.graph_hits = get_chunks_by_ids(rag.chunks,
                                                                chat.graph_chunk_ids)]

\* vector_hits = pg_store.search_chunks(query_embedding = embed_text(query_text)):
\* the text with extra terms has an embedding of its own
ChatSearch ==
    /\ chat.pc = "search"
    /\ \/ ChatRaise("search_chunks")
       \/ \E q \in IF chat.extra_terms = {} THEN {chat.q} ELSE Vectors :
          \E v \in search_chunks(rag.chunks, q, MaxTopK) :
             chat' = [chat EXCEPT !.pc = "assemble", !.vector_hits = v]

\* the loop over graph_hits + vector_hits, hits[:recall_k] and
\* merge_hits_by_page_or_caption
ChatAssemble ==
    /\ chat.pc = "assemble"
    /\ LET hits == Assemble(chat.graph_hits, chat.vector_hits, MaxRecall)
       IN  chat' = [chat EXCEPT !.pc = "rerank", !.merged = hits, !.hits = hits]

\* if RERANK_ENABLED and hits: hits = rerank_hits(user_text, hits, top_k); the POST
\* of rerank_results raises when the scorer cannot be reached
ChatRerankHits ==
    /\ chat.pc = "rerank"
    /\ IF chat.rerank_enabled /\ chat.hits # <<>>
       THEN \/ ChatRaise("rerank")
            \/ LET docs == [i \in DOMAIN chat.hits |-> chat.hits[i].chunk_text]
               IN  \E score \in [Range(docs) -> ScoreValues] :
                      chat' = [chat EXCEPT
                                  !.pc = "answer",
                                  !.hits = rerank_hits(chat.hits,
                                                       ScorerResponse(docs, score,
                                                                      MaxRerankTopK),
                                                       <<RerankMinScore>>)]
       ELSE chat' = [chat EXCEPT !.pc = "answer"]

\* except Exception as e: pdf_context = "(retrieval failed ..)"; hits = []
ChatExcept ==
    /\ chat.pc = "except"
    /\ chat' = [chat EXCEPT !.pc = "answer", !.hits = <<>>, !.pdf_context = "failed"]

\* the model is called and {"ok": True, .., "hits": hits} returned
ChatAnswer ==
    /\ chat.pc = "answer"
    /\ chat' = [chat EXCEPT !.pc = "returned", !.ok = TRUE]

ChatUnchanged == UNCHANGED <<entity, edge, graphVars, detail, last, evidence, rag, tx, link,
                             tenantRows, mention>>

InitChat ==
    /\ BuiltGraph
    /\ detail = [x \in EntityIds |-> PlainDetail]
    /\ last = NoOp
    /\ NoEvidence
    /\ NoJobs /\ NoCalls /\ NoEdgeCalls /\ NoReplay
    /\ \E texts \in ChatDocs : rag = Ingested(texts)
    /\ tx = NoCall
    /\ link = [l \in Links |-> NoLink]
    /\ tenantRows = [r \in Rows |-> 0]
    /\ mention = EntityChunk
    /\ \E graph_enabled \in BOOLEAN, rerank_enabled \in BOOLEAN, q \in Vectors,
          mentioned \in {<<>>, <<"k1">>} :
          chat = [pc |-> IF graph_enabled THEN "extract" ELSE "search",
                  graph_enabled |-> graph_enabled, rerank_enabled |-> rerank_enabled,
                  q |-> q, mentioned |-> mentioned, ents |-> <<>>, seed_ids |-> {},
                  extra_terms |-> {}, graph_chunk_ids |-> <<>>, stale |-> {},
                  graph_hits |-> <<>>, vector_hits |-> <<>>, merged |-> <<>>,
                  hits |-> <<>>, failed |-> {}, pdf_context |-> "", ok |-> FALSE]

NextChat ==
    \/ ChatExtract /\ ChatUnchanged
    \/ ChatFindByName /\ ChatUnchanged
    \/ ChatFindByEmbedding /\ ChatUnchanged
    \/ ChatNeighbors /\ ChatUnchanged
    \/ ChatChunkIds /\ ChatUnchanged
    \/ ChatResolve /\ ChatUnchanged
    \/ ChatSearch /\ ChatUnchanged
    \/ ChatAssemble /\ ChatUnchanged
    \/ ChatRerankHits /\ ChatUnchanged
    \/ ChatExcept /\ ChatUnchanged
    \/ ChatAnswer /\ ChatUnchanged
    \/ \E x \in EntityIds : DeactivateEntity(x)

SpecChat == InitChat /\ [][NextChat]_vars

GraphSteps ==
    {"extract", "find_entities_by_name_or_alias", "find_entities_by_embedding",
     "get_neighbor_entities", "list_chunk_ids_by_entities", "get_chunks_by_ids"}

\* what the query gives with the graph path off: the assembled vector hits
VectorOnly ==
    {Assemble(<<>>, v, MaxRecall) : v \in search_chunks(rag.chunks, chat.q, MaxTopK)}

\* C21: with the graph path on, a query in which a graph-side step failed (entity
\* extraction, a lookup by name or embedding, neighbour expansion, the chunk-id
\* lookup or resolving the chunk ids) is not aborted: it ends without a retrieval
\* error and with the candidates the vector path gives with the graph path off.
C21_GraphFailureDegradesToVector ==
    (chat.pc = "returned" /\ chat.graph_enabled
        /\ chat.failed # {} /\ chat.failed \subseteq GraphSteps) =>
        /\ chat.pdf_context # "failed"
        /\ chat.merged \in VectorOnly

\* C22: a query whose vector search failed does not report success.
C22_VectorFailureIsReported ==
    (chat.pc = "returned" /\ "search_chunks" \in chat.failed) => ~chat.ok

\* C23: when the scorer cannot be reached, the query returns the merged candidate
\* list as it was before the rerank step, same members and same order.
C23_UnreachableScorerKeepsHits ==
    (chat.pc = "returned" /\ "rerank" \in chat.failed) => chat.hits = chat.merged

\* the query of the end-to-end example: graph and rerank off, chunks A and B of
\* page 1, the query embedding is A's, nothing failed
EndToEnd ==
    /\ chat.pc = "returned"
    /\ ~chat.graph_enabled /\ ~chat.rerank_enabled
    /\ rag = Ingested(<<TextA, TextB>>)
    /\ chat.q = rag.chunks[1].embedding
    /\ chat.failed = {}

\* C27 (as claimed): the query returns A and B as two hits, A first.
C27_ARankedBeforeBSeparately ==
    EndToEnd => /\ Len(chat.hits) = 2
                /\ chat.hits[1].chunk_text = TextA
                /\ chat.hits[2].chunk_text = TextB

\* C27: the query returns one hit for page 1, the record of chunk A whose text is
\* A's text followed by B's body: A comes before B inside the merged hit.
C27_ABeforeBInMergedHit ==
    EndToEnd => chat.hits = <<[chunk_id |-> "c1", path |-> "vector",
                               chunk_text |-> TextA \o <<"">> \o Tail(TextB)]>>

C27_Witness == EndToEnd /\ Len(chat.vector_hits) = 2

\* C28: a query never takes chunk ids from a seed that is inactive when
\* list_chunk_ids_by_entities runs, and a deactivated entity keeps its row.
C28_InactiveEntityGivesNoChunks ==
    /\ chat.stale = {}
    /\ \A x \in EntityIds : entity[x] # NoRow

---------------------------------------------------------------------------
(* SpecDelete: core.delete_doc called by two request threads for the       *)
(* documents of a store that holds one ingested document; tx holds each    *)
(* caller's call.                                                           *)

Callers == {"a", "b"}

\* the doc_id arguments: the ingested document and one that does not exist
DocArgs == {1, 2}

\* get_latest_version_id: ORDER BY version_no DESC LIMIT 1, 0 when there is none
get_latest_version_id(store, doc) ==
    IF \E v \in store.versions : v[1] = doc
    THEN (CHOOSE v \in store.versions :
             v[1] = doc /\ \A u \in store.versions : u[1] = doc => u[2] <= v[2])[2]
    ELSE 0

\* list_chunks(doc_id, version_id): the chunk ids in row order
list_chunks(store, doc, version) ==
    LET rows == SelectSeq(store.chunks, LAMBDA r : r.doc = doc /\ r.version = version)
    IN  [i \in DOMAIN rows |-> ChunkIdOf(rows[i])]

\* fetch_chunk_entities: SELECT chunk_id, entity_id, mention_count FROM entity_chunk
\* WHERE chunk_id = ANY(chunk_ids)
fetch_chunk_entities(chunk_ids) == {m \in mention : m.chunk_id \in Range(chunk_ids)}

\* payload = {"doc_id": doc_id, "chunks": [], "mentions": []}
EmptyPayload(doc) == [doc_id |-> doc, chunks |-> <<>>, mentions |-> {}]

\* _collect_graph_delete_payload without an exception
Snapshot(store, doc) ==
    LET version == get_latest_version_id(store, doc)
        chunk_ids == list_chunks(store, doc, version)
    IN  IF version = 0 \/ chunk_ids = <<>> THEN EmptyPayload(doc)
        ELSE [doc_id |-> doc, chunks |-> chunk_ids,
              mentions |-> fetch_chunk_entities(chunk_ids)]

\* DELETE FROM docs WHERE doc_id = %s, with ON DELETE CASCADE to versions and chunks
DeleteDocRowOnly(store, doc) == [store EXCEPT !.docs = @ \ {doc}]

DeleteFrom(store, doc) ==
    [store EXCEPT !.docs = @ \ {doc},
                  !.versions = {v \in @ : v[1] # doc},
                  !.chunks = SelectSeq(@, LAMBDA r : r.doc # doc)]

\* if n <= 0: return {"ok": False, ..}
RemovedAny(n) == TRUE

Removed(n) == n > 0

NoDelete == [pc |-> "idle", doc |-> 0, payload |-> EmptyPayload(0), n |-> 0,
             committed |-> FALSE, ok |-> FALSE, error |-> ""]

DeleteReturns(c, ok, error) ==
    tx' = [tx EXCEPT ![c].pc = "returned", ![c].ok = ok, ![c].error = error]

\* delete_doc(rag_app_id, rag_clearance, doc_id) is called
DeleteCall(c, doc) ==
    /\ tx[c].pc = "idle"
    /\ tx' = [tx EXCEPT ![c] = [NoDelete EXCEPT !.pc = "meta", !.doc = doc]]
    /\ UNCHANGED <<rag, jobs>>

\* meta = fetch_doc_meta(ctx, doc_id); if not meta: return "doc not found"
DeleteMeta(c) ==
    /\ tx[c].pc = "meta"
    /\ IF tx[c].doc \in rag.docs
       THEN tx' = [tx EXCEPT ![c].pc = "collect"]
       ELSE DeleteReturns(c, FALSE, "doc not found")
    /\ UNCHANGED <<rag, jobs>>

\* graph_payload = _collect_graph_delete_payload(ctx, gctx, doc_id): an exception of
\* one of its reads is caught and the empty payload returned
DeleteCollect(c) ==
    /\ tx[c].pc = "collect"
    /\ \E fails \in BOOLEAN :
          tx' = [tx EXCEPT ![c].pc = "objects",
                           ![c].payload = IF fails THEN EmptyPayload(tx[c].doc)
                                          ELSE Snapshot(rag, tx[c].doc)]
    /\ UNCHANGED <<rag, jobs>>

\* obj_store.clear_prefix_safe(prefix); an exception returns "MinIO delete failed"
DeleteObjects(c) ==
    /\ tx[c].pc = "objects"
    /\ \/ tx' = [tx EXCEPT ![c].pc = "delete"]
       \/ DeleteReturns(c, FALSE, "MinIO delete failed")
    /\ UNCHANGED <<rag, jobs>>

\* pg_store.delete_doc: DELETE FROM docs ..; n = cur.rowcount (the statement waits
\* for another transaction that is deleting the row)
DeleteExecute(c) ==
    /\ tx[c].pc = "delete"
    /\ \A o \in Callers \ {c} : ~(tx[o].pc = "commit" /\ tx[o].doc = tx[c].doc /\ tx[o].n > 0)
    /\ tx' = [tx EXCEPT ![c].pc = "commit",
                        ![c].n = IF tx[c].doc \in rag.docs THEN 1 ELSE 0]
    /\ UNCHANGED <<rag, jobs>>

\* conn.commit(); return n; then, in delete_doc, if n <= 0: return "doc not deleted"
DeleteCommit(c) ==
    /\ tx[c].pc = "commit"
    /\ rag' = IF tx[c].n > 0 THEN DeleteFrom(rag, tx[c].doc) ELSE rag
    /\ tx' = [tx EXCEPT ![c].committed = TRUE,
                        ![c].pc = IF Removed(tx[c].n) THEN "enqueue" ELSE "returned",
                        ![c].error = IF Removed(tx[c].n) THEN "" ELSE "doc not deleted"]
    /\ UNCHANGED jobs

\* the statement or the commit raises: the transaction is rolled back and delete_doc
\* returns "PG delete failed"
DeleteFails(c) ==
    /\ tx[c].pc \in {"delete", "commit"}
    /\ tx' = [tx EXCEPT ![c].pc = "returned", ![c].n = 0, ![c].error = "PG delete failed"]
    /\ UNCHANGED <<rag, jobs>>

\* try: graph_store.enqueue_job(gctx, "doc_deleted", graph_payload)
\* except Exception: print a warning; return {"ok": True, ..}
DeleteEnqueue(c) ==
    /\ tx[c].pc = "enqueue"
    /\ \/ enqueue_job(tx[c].payload)
       \/ UNCHANGED jobs
    /\ DeleteReturns(c, TRUE, "")
    /\ UNCHANGED rag

DeleteUnchanged ==
    UNCHANGED <<entity, edge, worker, returned, raisedIn, crashes, conn, calls, edgeHist,
                replay, detail, last, evidence, link, tenantRows, mention, chat>>

InitDelete ==
    /\ rag = Ingested(<<TextA, TextB>>)
    /\ tx = [c \in Callers |-> NoDelete]
    /\ chat = NoChat
    /\ link = [l \in Links |-> NoLink]
    /\ tenantRows = [r \in Rows |-> 0]
    /\ mention = EntityChunk
    /\ detail = [x \in EntityIds |-> NoRow]
    /\ last = NoOp
    /\ NoEvidence
    /\ EmptyGraph
    /\ NoJobs /\ NoCalls /\ NoEdgeCalls /\ NoReplay

NextDelete ==
    \/ \E c \in Callers, doc \in DocArgs : DeleteCall(c, doc) /\ DeleteUnchanged
    \/ \E c \in Callers : DeleteMeta(c) /\ DeleteUnchanged
    \/ \E c \in Callers : DeleteCollect(c) /\ DeleteUnchanged
    \/ \E c \in Callers : DeleteObjects(c) /\ DeleteUnchanged
    \/ \E c \in Callers : DeleteExecute(c) /\ DeleteUnchanged
    \/ \E c \in Callers : DeleteCommit(c) /\ DeleteUnchanged
    \/ \E c \in Callers : DeleteFails(c) /\ DeleteUnchanged
    \/ \E c \in Callers : DeleteEnqueue(c) /\ DeleteUnchanged

SpecDelete == InitDelete /\ [][NextDelete]_vars

\* the pending doc_deleted jobs of document doc
JobsOf(doc) == {j \in DOMAIN jobs : jobs[j].payload.doc_id = doc /\ jobs[j].status = "pending"}

\* C29: a delete_doc call that returned ok left one pending doc_deleted job of its
\* document, and the job's payload is the snapshot of the document's chunk ids and
\* entity mentions as they were before the deletion.
C29_DeletionCreatesJobWithSnapshot ==
    \A c \in Callers :
        (tx[c].pc = "returned" /\ tx[c].ok) =>
            /\ Cardinality(JobsOf(tx[c].doc)) = 1
            /\ \A j \in JobsOf(tx[c].doc) :
                  jobs[j].payload = Snapshot(Ingested(<<TextA, TextB>>), tx[c].doc)

\* the calls whose DELETE removed the row of doc and committed
Deleted(doc) == {c \in Callers : tx[c].doc = doc /\ tx[c].committed /\ tx[c].n > 0}

\* C30: a doc_deleted job of a document exists only when the document's row is gone
\* from the committed chunk store, and there are no more jobs of the document than
\* calls whose deletion removed the row and committed: a call whose deletion failed or
\* removed no row enqueues none.
C30_JobOnlyAfterCommittedDeletion ==
    \A doc \in DocArgs :
        /\ JobsOf(doc) # {} => doc \notin rag.docs
        /\ Cardinality(JobsOf(doc)) <= Cardinality(Deleted(doc))

\* both callers deleted document 1: one removed the row and its job is queued, the
\* other removed no row, returned the error and queued nothing
C30_Witness ==
    /\ Cardinality(JobsOf(1)) = 1
    /\ \E c \in Callers :
          /\ tx[c].pc = "returned" /\ tx[c].doc = 1 /\ tx[c].committed
          /\ tx[c].n = 0 /\ ~tx[c].ok /\ tx[c].error = "doc not deleted"

\* C38: of the delete_doc calls made for one document, at most one returns ok and
\* at most one doc_deleted job of the document is enqueued.
C38_OneDeletionWins ==
    \A doc \in DocArgs :
        /\ Cardinality({c \in Callers : tx[c].doc = doc /\ tx[c].pc = "returned" /\ tx[c].ok}) <= 1
        /\ Cardinality(JobsOf(doc)) <= 1

\* both callers ran delete_doc for document 1 to the end, their DELETE statements
\* included: one returned ok, the other did not
C38_Witness ==
    /\ \A c \in Callers : tx[c].pc = "returned" /\ tx[c].doc = 1 /\ tx[c].committed
    /\ \E c \in Callers : tx[c].ok
    /\ \E c \in Callers : ~tx[c].ok

---------------------------------------------------------------------------
(* SpecBlocks: the merge pass over the chunks ingestion writes             *)
(* (build_chunks_with_meta1): text chunks, table blocks (type=Tables) and  *)
(* figure blocks (type=Figures), of two documents.                         *)

MaxBlockHits == 2       \* hits handed to the merge pass

\* build_meta_header({"type": type, "page": page_no}) + "\n" + the block
BlockTexts ==
    {<<"[[META type=text page=1]]", "A">>,
     <<"[[META type=text page=1]]", "L1", "L2", "L3", "L4">>,
     <<"[[META type=text page=3]]", "C">>,
     <<"[[META type=Tables page=3]]", "T3">>,
     <<"[[META type=Figures page=3]]", "F">>,
     <<"[[META type=table page=3]]", "T1">>}

BlockDocs == {"d1", "d2"}

\* a row of search_chunks or get_chunks_by_ids: chunk_id, doc_id, chunk_text
DocHit(c, doc, text) == [chunk_id |-> c, doc_id |-> doc, chunk_text |-> text]

InitBlocks ==
    /\ \E n \in 0..MaxBlockHits :
       \E texts \in {t \in [1..n -> BlockTexts] : \A i, j \in 1..n : t[i] = t[j] => i = j},
          docs \in [1..n -> BlockDocs] :
          LET hits == [i \in 1..n |-> DocHit(ChunkName(i), docs[i], texts[i])]
          IN  chat = [pc |-> "pass", input |-> hits, hits |-> hits]
    /\ OnlyChat

SpecBlocks == InitBlocks /\ [][NextPass]_vars

\* record n of the result holds the text of input hit i
HoldsText(n, i) ==
    \A line \in Range(Body(chat.input[i].chunk_text)) :
        line \in Range(chat.hits[n].chunk_text)

\* the block type the header of a chunk names: a table, a figure or plain text
BlockType(text) ==
    LET t == parse_meta_header(text).type
    IN  CASE t \in {"table", "Tables"} -> "table"
          [] t \in {"figure", "Figures"} -> "figure"
          [] OTHER -> "text"

\* C31: no record of the merge pass holds a table or figure block together with a
\* plain-text chunk, and two chunks are in one record only when block type, page
\* and caption agree.
C31_BlocksMergedApartFromText ==
    chat.pc = "passed" =>
        \A n \in DOMAIN chat.hits : \A i, j \in DOMAIN chat.input :
            (HoldsText(n, i) /\ HoldsText(n, j)) =>
                /\ BlockType(chat.input[i].chunk_text) = BlockType(chat.input[j].chunk_text)
                /\ parse_meta_header(chat.input[i].chunk_text).page
                      = parse_meta_header(chat.input[j].chunk_text).page
                /\ parse_meta_header(chat.input[i].chunk_text).caption
                      = parse_meta_header(chat.input[j].chunk_text).caption

\* C32: the text of every record of the merge pass is no longer than the ceiling.
C32_MergedTextWithinCeiling ==
    chat.pc = "passed" =>
        \A n \in DOMAIN chat.hits : Len(chat.hits[n].chunk_text) <= MergeMaxLines

\* C37: every record of the merge pass holds text of one document only.
C37_RecordOfOneDocument ==
    chat.pc = "passed" =>
        \A n \in DOMAIN chat.hits : \A i \in DOMAIN chat.input :
            HoldsText(n, i) => chat.input[i].doc_id = chat.hits[n].doc_id

---------------------------------------------------------------------------
(* SpecBuild: a document is ingested with graph build (ingest_pages_common),*)
(* may get a translated version (translate_doc_pages), is deleted          *)
(* (delete_doc) and its job is processed (process_graph_jobs_once).  The   *)
(* document has two chunks; tx holds the step reached and, as history, the *)
(* graph before the ingestion and after the build.                         *)

MaxExtracted == 3       \* entities _extract_entities_from_text returns for one chunk

\* edges between any two entities, an entity and itself included
AllPairs == EntityIds \X EntityIds

\* the natural key the extraction gives for entity x
KeyOf(x) == IF x = 1 THEN "k1" ELSE "k2"

\* what the model can extract from one chunk: entities in any order, repeated or not
ExtractedLists == UNION {[1..n -> EntityIds] : n \in 0..MaxExtracted}

\* upsert_entity_chunk(entity_id, chunk_id, mention_count=1): INSERT .. ON CONFLICT
\* (app_id, entity_id, chunk_id) DO UPDATE SET mention_count = mention_count + 1
upsert_entity_chunk(tbl, eid, cid) ==
    IF \E m \in tbl : m.entity_id = eid /\ m.chunk_id = cid
    THEN {IF m.entity_id = eid /\ m.chunk_id = cid
          THEN [m EXCEPT !.mention_count = @ + 1] ELSE m : m \in tbl}
    ELSE tbl \cup {[entity_id |-> eid, chunk_id |-> cid, mention_count |-> 1]}

\* for ent in entities: upsert_entity(..); upsert_entity_chunk(.., mention_count=1)
RECURSIVE BuildEntities(_, _, _)
BuildEntities(g, cid, ents) ==
    IF ents = <<>> THEN g
    ELSE BuildEntities([g EXCEPT !.entity[Head(ents)] = UpsertEntityRow(@, KeyOf(Head(ents))),
                                 !.mention = upsert_entity_chunk(@, Head(ents), cid)],
                       cid, Tail(ents))

\* upsert_edge(a, b, "co_occurs", weight=0.5) for every call of the list
RECURSIVE BuildEdges(_, _)
BuildEdges(tbl, pairs) ==
    IF pairs = <<>> THEN tbl
    ELSE BuildEdges([tbl EXCEPT ![Head(pairs)] = UpsertEdgeRow(@, WeightHalf)], Tail(pairs))

\* the graph build of ingest_pages_common: for each chunk of the version, the
\* entities and mentions, then for i < j the edges (entity_ids[i], entity_ids[j])
\* and back; entity_ids is the list as extracted
RECURSIVE BuildGraph(_, _, _)
BuildGraph(g, lists, n) ==
    IF n > Len(lists) THEN g
    ELSE LET h == BuildEntities(g, ChunkName(n), lists[n])
         IN  BuildGraph([h EXCEPT !.edge = BuildEdges(@, PairCalls(lists[n], 1, 2))],
                        lists, n + 1)

\* the rows of a payload as the list the job holds
RECURSIVE SeqOf(_)
SeqOf(S) == IF S = {} THEN <<>>
            ELSE LET m == CHOOSE m \in S : TRUE IN <<m>> \o SeqOf(S \ {m})

Graph == [entity |-> entity, edge |-> edge, mention |-> mention]

\* ingest_pages_common(.., graph_enabled=True): ingest_pdf, then the graph build
\* over the chunks of the latest version
BuildIngest ==
    /\ tx.pc = "new"
    /\ rag' = Ingested(<<TextA, TextB>>)
    /\ LET g == BuildGraph(Graph, tx.lists, 1)
       IN  /\ entity' = g.entity
           /\ edge' = g.edge
           /\ mention' = g.mention
           /\ tx' = [tx EXCEPT !.pc = "ingested", !.built = g]
    /\ UNCHANGED jobs

\* translate_doc_pages: version_no = latest_no + 1; add_version_and_chunks(..) with
\* the chunks of the translated pages; no graph build
BuildTranslate ==
    /\ tx.pc = "ingested"
    /\ get_latest_version_id(rag, 1) = 1
    /\ rag' = Commit(rag, <<Write("doc_versions", <<1, 2>>),
                            Write("chunks", ChunkRow(1, 2, 3, TextT, <<0, 0>>))>>)
    /\ UNCHANGED <<entity, edge, mention, jobs, tx>>

\* delete_doc(doc_id), no step failing: the payload is collected, the row deleted
\* and the job enqueued
BuildDelete ==
    /\ tx.pc = "ingested"
    /\ rag' = DeleteFrom(rag, 1)
    /\ enqueue_job(Snapshot(rag, 1))
    /\ tx' = [tx EXCEPT !.pc = "deleted", !.translated = get_latest_version_id(rag, 1) = 2]
    /\ UNCHANGED <<entity, edge, mention>>

\* process_graph_jobs_once, no call raising: the job is fetched, its decrements and
\* the deactivation are made and it is marked done
BuildProcess ==
    /\ tx.pc = "deleted"
    /\ LET g == ApplyJob([entity |-> entity, edge |-> edge], SeqOf(jobs[1].payload.mentions))
       IN  /\ entity' = g.entity
           /\ edge' = g.edge
    /\ jobs' = mark_job_done(jobs, 1, TRUE, NoError)
    /\ tx' = [tx EXCEPT !.pc = "processed"]
    /\ UNCHANGED <<rag, mention>>

BuildUnchanged ==
    UNCHANGED <<worker, returned, raisedIn, crashes, conn, calls, edgeHist, replay, detail,
                last, evidence, link, tenantRows, chat>>

InitBuild ==
    /\ entity \in [EntityIds -> {NoRow}] \cup {[x \in EntityIds |-> EntityRow(KeyOf(x), n[x], TRUE)] :
                                                 n \in [EntityIds -> 1..2]}
    /\ \E n \in 0..1 :
          edge = [p \in AllPairs |-> IF n = 0 \/ p[1] = p[2] THEN NoRow
                                     ELSE EdgeRow(WeightHalf, n)]
    /\ mention = {}
    /\ rag = EmptyStore
    /\ \E lists \in [1..2 -> ExtractedLists] :
          tx = [pc |-> "new", lists |-> lists, translated |-> FALSE,
                before |-> [entity |-> entity, edge |-> edge],
                built |-> [entity |-> entity, edge |-> edge, mention |-> {}]]
    /\ chat = NoChat
    /\ link = [l \in Links |-> NoLink]
    /\ tenantRows = [r \in Rows |-> 0]
    /\ detail = [x \in EntityIds |-> NoRow]
    /\ last = NoOp
    /\ NoEvidence
    /\ NoJobs /\ NoCalls /\ NoEdgeCalls /\ NoReplay

NextBuild ==
    \/ BuildIngest /\ BuildUnchanged
    \/ BuildTranslate /\ BuildUnchanged
    \/ BuildDelete /\ BuildUnchanged
    \/ BuildProcess /\ BuildUnchanged

SpecBuild == InitBuild /\ [][NextBuild]_vars

CountOf(row) == IF row = NoRow THEN 0 ELSE row.occurrence_count

EvidenceOf(row) == IF row = NoRow THEN 0 ELSE row.evidence_count

\* the mention counts entity x had in the chunks of the document, after the build
RECURSIVE MentionsOf(_, _)
MentionsOf(tbl, x) ==
    IF tbl = {} THEN 0
    ELSE LET m == CHOOSE m \in tbl : TRUE
         IN  (IF m.entity_id = x THEN m.mention_count ELSE 0) + MentionsOf(tbl \ {m}, x)

\* C33: after the document was deleted and its job processed, every entity's
\* occurrence_count is the count it had after the build less the mentions it had in
\* all chunks of the document, floored at 0, whether or not the document got a
\* second version.
C33_AllVersionsAreCompensated ==
    tx.pc = "processed" =>
        \A x \in EntityIds :
            CountOf(entity[x])
                = Max(CountOf(tx.built.entity[x]) - MentionsOf(tx.built.mention, x), 0)

\* C34: after ingestion with graph build, deletion and one processing of the job,
\* every entity's occurrence_count and every edge's evidence_count is what it was
\* before the ingestion (0 where there was no row), for every list of extracted
\* entities.
C34_BuildThenCompensateRestoresCounts ==
    (tx.pc = "processed" /\ ~tx.translated) =>
        /\ \A x \in EntityIds : CountOf(entity[x]) = CountOf(tx.before.entity[x])
        /\ \A p \in AllPairs : EvidenceOf(edge[p]) = EvidenceOf(tx.before.edge[p])

\* the counts are restored for lists that name no entity twice
RestoredWithoutRepeats ==
    (tx.pc = "processed" /\ ~tx.translated
        /\ \A n \in DOMAIN tx.lists : \A i, j \in DOMAIN tx.lists[n] :
               tx.lists[n][i] = tx.lists[n][j] => i = j) =>
        /\ \A x \in EntityIds : CountOf(entity[x]) = CountOf(tx.before.entity[x])
        /\ \A p \in AllPairs : EvidenceOf(edge[p]) = EvidenceOf(tx.before.edge[p])

\* the mentions are compensated for a document that has one version only
OneVersionIsCompensated ==
    (tx.pc = "processed" /\ ~tx.translated) =>
        \A x \in EntityIds :
            CountOf(entity[x])
                = Max(CountOf(tx.built.entity[x]) - MentionsOf(tx.built.mention, x), 0)

---------------------------------------------------------------------------
(* SpecFailed: one worker processes the one job of the queue, and every    *)
(* store operation of the try block can raise.  last holds (history) the   *)
(* graph as it was when the job was queued; nothing else writes the graph. *)

InitFailed ==
    /\ \E n \in [EntityIds -> 1..2] :
          entity = [x \in EntityIds |-> EntityRow(KeyOf(x), n[x], TRUE)]
    /\ \E n \in 0..1 : edge = [p \in EdgeKeys |-> EdgeRow(WeightHalf, n)]
    /\ \E ms \in GraphPayloads :
          jobs = <<[status |-> "pending", payload |-> ms, error_message |-> NoError]>>
    /\ worker = [w \in Workers |-> Asleep]
    /\ returned = [j \in JobIds |-> {}]
    /\ raisedIn = [j \in JobIds |-> NoError]
    /\ crashes = 0
    /\ NoCalls
    /\ NoEdgeCalls
    /\ NoReplay
    /\ detail = [x \in EntityIds |-> NoRow]
    /\ last = [op |-> "none", entity |-> entity, edge |-> edge]
    /\ NoEvidence
    /\ NoRag

NextFailed ==
    \/ FetchSelect("w1")
    \/ FetchUpdate("w1")
    \/ FetchCommit("w1")
    \/ FetchFails("w1")
    \/ DecrementEntity("w1")
    \/ DecrementEntityFails("w1")
    \/ DecrementEdge("w1")
    \/ DecrementEdgeFails("w1")
    \/ Deactivate("w1")
    \/ DeactivateFails("w1")
    \/ MarkDone("w1")
    \/ MarkDoneFails("w1")
    \/ MarkFailed("w1")
    \/ MarkFailedFails("w1")

SpecFailed == InitFailed /\ [][NextFailed]_vars

\* C35: when a decrement of an entity, a decrement of an edge or the deactivation
\* raised while a job was processed and the job is marked failed, the entity rows
\* (occurrence_count, is_active) and the edge rows (evidence_count) are what they
\* were before the worker started the job.
C35_FailedJobLeavesGraphUnchanged ==
    \A j \in DOMAIN jobs :
        (jobs[j].status = "failed"
            /\ raisedIn[j] \in {"decrement_entity_occurrence", "decrement_edge_evidence",
                                "deactivate_entities_with_zero_occurrence"}) =>
            /\ entity = last.entity
            /\ edge = last.edge

---------------------------------------------------------------------------
(* SpecActive: upsert_entity calls, decrement_entity_occurrence calls and  *)
(* the passes of a worker over queued jobs, in any interleaving, without   *)
(* update_entity and deactivate_entity.                                    *)

MaxDec == 2             \* the dec_count argument of decrement_entity_occurrence

NextActive ==
    \/ \E k \in Keys : UpsertEntity(k)
    \/ \E x \in EntityIds, dec \in 1..MaxDec : DecrementOccurrence(x, dec)
    \/ Enqueue({TwoEntities}, MaxGraphJobs)
    \/ WorkerOk("w1")
    \/ WorkerFails("w1")

SpecActive == InitGraph /\ [][NextActive]_vars

\* C36: every entity whose is_active is false has occurrence_count 0.
C36_InactiveMeansZeroCount ==
    \A x \in EntityIds :
        (entity[x] # NoRow /\ ~entity[x].is_active) => entity[x].occurrence_count = 0

\* a job deactivated an entity, and another entity was decremented to 0 by a direct
\* call and is still active
C36_Witness ==
    /\ \E x \in EntityIds : entity[x] # NoRow /\ ~entity[x].is_active
    /\ \E x \in EntityIds : /\ entity[x] # NoRow /\ entity[x].is_active
                            /\ entity[x].occurrence_count = 0
    /\ \E j \in DOMAIN jobs : jobs[j].status = "done"
    /\ last.op = "decrement_entity_occurrence"

---------------------------------------------------------------------------
(* SpecStale: the store holds document 1 (chunks c1, c2) and document 2    *)
(* (chunk c3), the graph their mentions.  Document 1 is deleted; a query   *)
(* starts after the deletion, before or after the worker has processed the *)
(* document's job.                                                         *)

TwoDocuments ==
    Commit(Ingested(<<TextA, TextB>>),
           <<Write("docs", 2), Write("doc_versions", <<2, 1>>),
             Write("chunks", ChunkRow(2, 1, 3, TextT, <<0, 1>>))>>)

\* entity 1 is mentioned in c1 and in c3, entity 2 in c2
StaleMentions == EntityChunk \cup {[entity_id |-> 1, chunk_id |-> "c3", mention_count |-> 1]}

\* chat_send(state, user_text, graph_enabled) is called once document 1 is deleted
StaleQuery ==
    /\ tx.pc \in {"deleted", "processed"}
    /\ chat = NoChat
    /\ \E graph_enabled \in BOOLEAN, rerank_enabled \in BOOLEAN, q \in Vectors,
          mentioned \in {<<>>, <<"k1">>} :
          chat' = [pc |-> IF graph_enabled THEN "extract" ELSE "search",
                   graph_enabled |-> graph_enabled, rerank_enabled |-> rerank_enabled,
                   q |-> q, mentioned |-> mentioned, ents |-> <<>>, seed_ids |-> {},
                   extra_terms |-> {}, graph_chunk_ids |-> <<>>, stale |-> {},
                   graph_hits |-> <<>>, vector_hits |-> <<>>, merged |-> <<>>,
                   hits |-> <<>>, failed |-> {}, pdf_context |-> "", ok |-> FALSE]

InitStale ==
    /\ BuiltGraph
    /\ mention = StaleMentions
    /\ rag = TwoDocuments
    /\ tx = [pc |-> "ingested", translated |-> FALSE]
    /\ chat = NoChat
    /\ detail = [x \in EntityIds |-> PlainDetail]
    /\ last = NoOp
    /\ NoEvidence
    /\ link = [l \in Links |-> NoLink]
    /\ tenantRows = [r \in Rows |-> 0]
    /\ NoJobs /\ NoCalls /\ NoEdgeCalls /\ NoReplay

NextStale ==
    \/ BuildDelete /\ BuildUnchanged
    \/ BuildProcess /\ BuildUnchanged
    \/ StaleQuery /\ ChatUnchanged
    \/ ChatExtract /\ ChatUnchanged
    \/ ChatFindByName /\ ChatUnchanged
    \/ ChatFindByEmbedding /\ ChatUnchanged
    \/ ChatNeighbors /\ ChatUnchanged
    \/ ChatChunkIds /\ ChatUnchanged
    \/ ChatResolve /\ ChatUnchanged
    \/ ChatSearch /\ ChatUnchanged
    \/ ChatAssemble /\ ChatUnchanged
    \/ ChatRerankHits /\ ChatUnchanged
    \/ ChatExcept /\ ChatUnchanged
    \/ ChatAnswer /\ ChatUnchanged

SpecStale == InitStale /\ [][NextStale]_vars

\* the hits of list hits that carry the id or a line of a chunk of document 1
OfDeleted(hits) ==
    {n \in DOMAIN hits : \/ hits[n].chunk_id \in {"c1", "c2"}
                         \/ Range(hits[n].chunk_text) \cap {"A", "B"} # {}}

\* C39: a query that starts after the deletion of document 1 committed has no chunk
\* of document 1 among the hits of the graph path, of the vector path or of its
\* result, whether or not the worker has processed the document's job.
C39_NoHitOfDeletedDocument ==
    chat # NoChat =>
        /\ OfDeleted(chat.graph_hits) = {}
        /\ OfDeleted(chat.vector_hits) = {}
        /\ OfDeleted(chat.hits) = {}

\* the job is still pending, the chunk-id lookup gave the id of the deleted chunk c1
\* from the stale mention and the query returned the chunk of document 2
C39_Witness ==
    /\ chat # NoChat
    /\ chat.pc = "returned"
    /\ jobs[1].status = "pending"
    /\ "c1" \in Range(chat.graph_chunk_ids)
    /\ chat.hits # <<>>
    /\ chat.hits[1].chunk_id = "c3"

===========================================================================
